---- MODULE Spec2Model ----
(***************************************************************************)
(* Text-transformation step builder: the pipeline engine (usePipeline),    *)
(* the scope resolver, the debounce scheduler and the entity store that    *)
(* feeds them (useStepGroups, useSteps).                                   *)
(*                                                                         *)
(* Texts (input, output, titles, error messages) are sequences of          *)
(* one-character strings, so that toUpperCase, trim, concatenation and the *)
(* synthesized error line are computed and not assumed.                    *)
(* Ids (crypto.randomUUID) are integers drawn from a counter; null is 0.   *)
(***************************************************************************)
EXTENDS Integers, Sequences, FiniteSets, TLC

VARIABLES
    stepGroups,       \* useStepGroups: StepGroup[]
    selectedGroupId,  \* useStepGroups: string | null
    selectedStepId,   \* useSteps: string | null
    inputText,        \* usePipeline state
    outputText,       \* usePipeline state
    stepErrors,       \* usePipeline state: Record<stepId, message>
    scopeStepId,      \* usePipeline state: anchor, string | null
    timers,           \* live debounce timers, each with the closure it captured
    mounted,          \* the App component is mounted
    nextId,           \* next fresh id (randomUUID never repeats)
    now,              \* Date.now()
    pendingDeletes,   \* requestDeleteStep: delayed deleteStep calls not yet run
    ops,              \* history: number of user actions so far
    burst,            \* history: relevant changes since the scheduler was last idle
    runsSinceChange,  \* history: engine executions since the last relevant change
    lastRun,          \* history: <<>> or <<what the last timer callback did>>
    probe,            \* <<>> or <<the last call recorded: of the hook's API, a handler, a reload>>
    librarySteps,     \* useLibrary: LibraryStep[]
    storage,          \* localStorage[STORAGE_KEY]: the payload stored
    storageFull,      \* the browser refuses a larger payload (quota exceeded)
    uncaught,         \* an error escaped an effect: React has torn the app down
    deletingStepIds,  \* useSteps: the steps marked as being deleted
    pendingCleanups,  \* requestDeleteStep: the 0 ms timers that clear a mark, not yet run
    groupSearch,      \* useSearch: the query typed over the groups
    stepSearch,       \* useSearch: the query typed over the steps
    librarySearch     \* useSearch: the query typed over the library

vars == <<stepGroups, selectedGroupId, selectedStepId, inputText, outputText,
          stepErrors, scopeStepId, timers, mounted, nextId, now, pendingDeletes, ops, burst,
          runsSinceChange,
          lastRun, probe, librarySteps, storage, storageFull, uncaught,
          deletingStepIds, pendingCleanups, groupSearch, stepSearch, librarySearch>>

storeVars == <<librarySteps, storage, storageFull, uncaught>>

deleteVars == <<pendingDeletes, deletingStepIds, pendingCleanups>>

searchVars == <<groupSearch, stepSearch, librarySearch>>

----------------------------------------------------------------------------
(* Bounds of the model *)

\* longest step list of a stored pipeline handed to the engine directly
MaxSteps == 3

\* longest step list of a group found in storage when the app starts
MaxInitSteps == 1

\* number of user actions in one behaviour of the app
MaxOps == 2

\* number of edits in one behaviour of the editing scenario
MaxEdits == 5

\* number of groups found in storage when the entity store starts
MaxGroups == 3

----------------------------------------------------------------------------
(* Values *)

Null == 0

STORAGE_VERSION == 1

\* const [runScope] = useState<RunScope>('all'): there is no setter.
runScope == "all"

RunScopes == {"all", "from", "to"}

EmptyText == <<>>

NoErrors == [id \in {} |-> EmptyText]

LowerCase == <<"a","b","c","d","e","f","g","h","i","j","k","l","m",
               "n","o","p","q","r","s","t","u","v","w","x","y","z">>

UpperCase == <<"A","B","C","D","E","F","G","H","I","J","K","L","M",
               "N","O","P","Q","R","S","T","U","V","W","X","Y","Z">>

\* String.prototype.toUpperCase on one character
UpperChar(c) ==
    IF \E i \in 1..Len(LowerCase) : LowerCase[i] = c
    THEN UpperCase[CHOOSE i \in 1..Len(LowerCase) : LowerCase[i] = c]
    ELSE c

LowerChar(c) ==
    IF \E i \in 1..Len(UpperCase) : UpperCase[i] = c
    THEN LowerCase[CHOOSE i \in 1..Len(UpperCase) : UpperCase[i] = c]
    ELSE c

toUpperCase(t) == [i \in 1..Len(t) |-> UpperChar(t[i])]

toLowerCase(t) == [i \in 1..Len(t) |-> LowerChar(t[i])]

IsSpace(c) == c = " "

RECURSIVE trimStart(_)
trimStart(t) ==
    IF t # <<>> /\ IsSpace(Head(t)) THEN trimStart(Tail(t)) ELSE t

RECURSIVE trimEnd(_)
trimEnd(t) ==
    IF t # <<>> /\ IsSpace(t[Len(t)]) THEN trimEnd(SubSeq(t, 1, Len(t) - 1)) ELSE t

\* String.prototype.trim
trim(t) == trimEnd(trimStart(t))

\* helpers = { upper, lower, trim }
helpersUpper(value) == toUpperCase(value)

helpersLower(value) == toLowerCase(value)

helpersTrim(value) == trim(value)

----------------------------------------------------------------------------
(* JavaScript values that a step's function can return or throw *)

JsString(t) == [type |-> "string", s |-> t, name |-> EmptyText]

JsUndefined == [type |-> "undefined", s |-> EmptyText, name |-> EmptyText]

\* new Error(message): name is "Error"
JsError(message) == [type |-> "error", s |-> message, name |-> <<"E","r","r","o","r">>]

\* String(value)
String(v) ==
    CASE v.type = "string" -> v.s
      [] v.type = "undefined" -> <<"u","n","d","e","f","i","n","e","d">>
      [] v.type = "error" -> IF v.s = EmptyText THEN v.name ELSE v.name \o <<":"," ">> \o v.s

\* value ?? ''
OrEmptyString(v) == IF v.type = "undefined" THEN JsString(EmptyText) ELSE v

\* A message taken as String(error) whatever was thrown
getErrorMessageString(error) == String(error)

\* getErrorMessage: error instanceof Error ? error.message : String(error)
getErrorMessage(error) == IF error.type = "error" THEN error.s ELSE String(error)

----------------------------------------------------------------------------
(* Step code.  A code is the source text typed in the step editor; Eval gives *)
(* what `new Function('input', 'helpers', code)(input, helpers)` does with it. *)

DEFAULT_CODE == "return input"

CodeUpper == "return input.toUpperCase()"

CodeAppend == "return input + \"!\""

CodeTrim == "return helpers.trim(input)"

CodeNoReturn == "helpers.lower(input)"

CodeThrowBad == "throw new Error(\"bad\")"

CodeThrowString == "throw \"oops\""

Returned(v) == [threw |-> FALSE, val |-> v]

Thrown(v) == [threw |-> TRUE, val |-> v]

Eval(code, input) ==
    CASE code = DEFAULT_CODE -> Returned(JsString(input))
      [] code = CodeUpper -> Returned(JsString(toUpperCase(input)))
      [] code = CodeAppend -> Returned(JsString(input \o <<"!">>))
      [] code = CodeTrim -> Returned(JsString(helpersTrim(input)))
      [] code = CodeNoReturn -> Returned(JsUndefined)
      [] code = CodeThrowBad -> Thrown(JsError(<<"b","a","d">>))
      [] code = CodeThrowString -> Thrown(JsString(<<"o","o","p","s">>))

----------------------------------------------------------------------------
(* Scope resolver and transform engine (usePipeline) *)

\* activeSteps.findIndex((step) => step.id === anchor): 0 stands for -1
findIndex(steps, id) ==
    IF \E i \in 1..Len(steps) : steps[i].id = id
    THEN CHOOSE i \in 1..Len(steps) :
            /\ steps[i].id = id
            /\ \A j \in 1..(i - 1) : steps[j].id # id
    ELSE 0

\* A resolver that gives no steps when the anchor is missing
resolveScopeStepsStrict(scope, anchorId, activeSteps) ==
    IF scope = "all" THEN activeSteps
    ELSE LET anchorIndex == findIndex(activeSteps, anchorId) IN
         IF anchorId = Null \/ anchorIndex = 0 THEN <<>>
         ELSE IF scope = "from" THEN SubSeq(activeSteps, anchorIndex, Len(activeSteps))
         ELSE SubSeq(activeSteps, 1, anchorIndex)

\* A resolver whose 'to' scope stops before the anchor: slice(0, anchorIndex)
resolveScopeStepsExclusive(scope, anchorId, activeSteps) ==
    IF scope = "all" THEN activeSteps
    ELSE IF anchorId = Null THEN activeSteps
    ELSE LET anchorIndex == findIndex(activeSteps, anchorId) IN
         IF anchorIndex = 0 THEN activeSteps
         ELSE IF scope = "from" THEN SubSeq(activeSteps, anchorIndex, Len(activeSteps))
         ELSE SubSeq(activeSteps, 1, anchorIndex - 1)

resolveScopeSteps(scope, anchorId, activeSteps) ==
    IF scope = "all" THEN activeSteps
    ELSE IF anchorId = Null THEN activeSteps
    ELSE LET anchorIndex == findIndex(activeSteps, anchorId) IN
         IF anchorIndex = 0 THEN activeSteps
         ELSE IF scope = "from" THEN SubSeq(activeSteps, anchorIndex, Len(activeSteps))
         ELSE SubSeq(activeSteps, 1, anchorIndex)

\* A loop without `if (step.muted) continue`
RECURSIVE pipelineLoopAllSteps(_, _, _, _)
pipelineLoopAllSteps(pipeline, i, current, calls) ==
    IF i > Len(pipeline)
    THEN [output |-> current, errors |-> NoErrors, failedStep |-> <<>>, calls |-> calls]
    ELSE LET step == pipeline[i]
             r == Eval(step.code, current)
         IN  IF r.threw
             THEN [output |-> current,
                   errors |-> (step.id :> getErrorMessage(r.val)),
                   failedStep |-> <<step>>,
                   calls |-> Append(calls, step.id)]
             ELSE pipelineLoopAllSteps(pipeline, i + 1, String(OrEmptyString(r.val)),
                                       Append(calls, step.id))

\* A loop that records a failure and goes on with the steps after it
RECURSIVE pipelineLoopContinue(_, _, _, _)
pipelineLoopContinue(pipeline, i, current, calls) ==
    IF i > Len(pipeline)
    THEN [output |-> current, errors |-> NoErrors, failedStep |-> <<>>, calls |-> calls]
    ELSE LET step == pipeline[i] IN
         IF step.muted THEN pipelineLoopContinue(pipeline, i + 1, current, calls)
         ELSE LET r == Eval(step.code, current) IN
              IF r.threw
              THEN LET rest == pipelineLoopContinue(pipeline, i + 1, current,
                                                    Append(calls, step.id))
                   IN  [output |-> rest.output,
                        errors |-> (step.id :> getErrorMessage(r.val)) @@ rest.errors,
                        failedStep |-> <<step>>,
                        calls |-> rest.calls]
              ELSE pipelineLoopContinue(pipeline, i + 1, String(OrEmptyString(r.val)),
                                        Append(calls, step.id))

\* The for-loop of executePipeline from position i on, with running value
\* `current`; `calls` lists the ids of the steps whose function was invoked.
RECURSIVE pipelineLoop(_, _, _, _)
pipelineLoop(pipeline, i, current, calls) ==
    IF i > Len(pipeline)
    THEN [output |-> current, errors |-> NoErrors, failedStep |-> <<>>, calls |-> calls]
    ELSE LET step == pipeline[i] IN
         IF step.muted THEN pipelineLoop(pipeline, i + 1, current, calls)
         ELSE LET r == Eval(step.code, current) IN
              IF r.threw
              THEN [output |-> current,
                    errors |-> (step.id :> getErrorMessage(r.val)),
                    failedStep |-> <<step>>,
                    calls |-> Append(calls, step.id)]
              ELSE pipelineLoop(pipeline, i + 1, String(OrEmptyString(r.val)),
                                Append(calls, step.id))

executePipeline(scope, anchorId, input, activeSteps) ==
    pipelineLoop(resolveScopeSteps(scope, anchorId, activeSteps), 1, input, <<>>)

\* `Error in "${failedStep.title}": ${errors[failedStep.id]}`
errorLine(title, message) ==
    <<"E","r","r","o","r"," ","i","n"," ","\"">> \o title \o <<"\"",":"," ">> \o message

\* What runPipeline publishes for a result: the new outputText and stepErrors
runPipelineOutput(result) ==
    IF result.failedStep # <<>>
    THEN errorLine(result.failedStep[1].title, result.errors[result.failedStep[1].id])
    ELSE result.output

----------------------------------------------------------------------------
(* Entities (types.ts, factories.ts) *)

Digits == <<"0","1","2","3","4","5","6","7","8","9">>

\* `${index}` for index >= 0
RECURSIVE NumberText(_)
NumberText(n) ==
    IF n < 10 THEN <<Digits[n + 1]>>
    ELSE NumberText(n \div 10) \o <<Digits[(n % 10) + 1]>>

createStep(index, id, t) ==
    [id |-> id,
     title |-> <<"t","i","t","l","e"," ">> \o NumberText(index),
     code |-> DEFAULT_CODE,
     muted |-> FALSE,
     createdAt |-> t,
     updatedAt |-> t]

\* inputText is absent from a new group: <<>> is undefined, <<t>> is the text t
createGroup(index, id, t) ==
    [id |-> id,
     title |-> <<"G","r","o","u","p"," ">> \o NumberText(index),
     steps |-> <<>>,
     createdAt |-> t,
     updatedAt |-> t,
     inputText |-> <<>>]

\* stepGroups.find((group) => group.id === selectedGroupId) ?? null, as <<>> or <<group>>
activeGroupOf(groups, groupId) ==
    IF \E i \in 1..Len(groups) : groups[i].id = groupId
    THEN <<groups[CHOOSE i \in 1..Len(groups) :
                    /\ groups[i].id = groupId
                    /\ \A j \in 1..(i - 1) : groups[j].id # groupId]>>
    ELSE <<>>

\* activeGroup?.steps ?? []
activeStepsOf(groups, groupId) ==
    IF activeGroupOf(groups, groupId) = <<>> THEN <<>>
    ELSE activeGroupOf(groups, groupId)[1].steps

\* activeGroup?.inputText ?? ''
initialInputTextOf(groups, groupId) ==
    IF activeGroupOf(groups, groupId) = <<>> THEN EmptyText
    ELSE IF activeGroupOf(groups, groupId)[1].inputText = <<>> THEN EmptyText
    ELSE activeGroupOf(groups, groupId)[1].inputText[1]

activeGroup == activeGroupOf(stepGroups, selectedGroupId)

activeSteps == activeStepsOf(stepGroups, selectedGroupId)

hasActiveGroup == activeGroup # <<>>

\* An update that gives the text to every group
updateGroupInputTextAll(groups, id, text, t) ==
    [i \in 1..Len(groups) |-> [groups[i] EXCEPT !.inputText = <<text>>, !.updatedAt = t]]

\* prev.map((group) => group.id === id ? { ...group, inputText, updatedAt: Date.now() } : group)
updateGroupInputText(groups, id, text, t) ==
    [i \in 1..Len(groups) |->
        IF groups[i].id = id
        THEN [groups[i] EXCEPT !.inputText = <<text>>, !.updatedAt = t]
        ELSE groups[i]]

\* An update that gives the steps to every group
updateActiveStepsEvery(groups, groupId, next, t) ==
    [i \in 1..Len(groups) |-> [groups[i] EXCEPT !.steps = next, !.updatedAt = t]]

\* An update of the steps that leaves the group's updatedAt as it was
updateActiveStepsNoStamp(groups, groupId, next, t) ==
    [i \in 1..Len(groups) |->
        IF groups[i].id = groupId THEN [groups[i] EXCEPT !.steps = next] ELSE groups[i]]

\* updateActiveSteps: prev.map((group) => group.id === activeGroup.id
\*     ? { ...group, steps: updater(group.steps), updatedAt: Date.now() } : group)
\* next: updater(group.steps) for the group with that id
updateActiveSteps(groups, groupId, next, t) ==
    [i \in 1..Len(groups) |->
        IF groups[i].id = groupId
        THEN [groups[i] EXCEPT !.steps = next, !.updatedAt = t]
        ELSE groups[i]]

\* A fallback to the last element
lastIdOrNull(items) == IF items = <<>> THEN Null ELSE items[Len(items)].id

\* next[0]?.id ?? null
firstIdOrNull(items) == IF items = <<>> THEN Null ELSE items[1].id

IdsOf(items) == {items[i].id : i \in 1..Len(items)}

----------------------------------------------------------------------------
(* Effects that run after a render (App and usePipeline) *)

\* A repair effect that fills in a missing selection but keeps a dangling one
repairSelectionMissing(groups, groupId, stepId) ==
    IF activeGroupOf(groups, groupId) = <<>> THEN Null
    ELSE IF activeStepsOf(groups, groupId) = <<>> THEN Null
    ELSE IF stepId = Null THEN activeStepsOf(groups, groupId)[1].id
    ELSE stepId

\* App: the selection repair effect
repairSelection(groups, groupId, stepId) ==
    IF activeGroupOf(groups, groupId) = <<>> THEN Null
    ELSE IF activeStepsOf(groups, groupId) = <<>> THEN Null
    ELSE IF stepId = Null \/ stepId \notin IdsOf(activeStepsOf(groups, groupId))
         THEN activeStepsOf(groups, groupId)[1].id
         ELSE stepId

\* App: if (runScope !== 'all' && selectedStep) setScopeStepId(selectedStep.id)
scopeAnchorEffect(groups, groupId, stepId, anchorId) ==
    IF runScope # "all" /\ stepId \in IdsOf(activeStepsOf(groups, groupId))
    THEN stepId
    ELSE anchorId

\* One render and its effects, repeated until a render changes nothing.
\* st is the state rendered; prevInit and prevInput are initialInputText and
\* inputText of the previous render (the dependencies of the two effects).
\*   usePipeline [initialInputText]: setInputText(initialInputText)
\*   usePipeline [inputText]: onInputTextChange(inputText), which is
\*       updateGroupInputText(activeGroup.id, inputText) when a group is active
RECURSIVE renderEffects(_, _, _, _)
renderEffects(st, prevInit, prevInput, t) ==
    LET init == initialInputTextOf(st.groups, st.groupId)
        initChanged == init # prevInit
        inputChanged == st.input # prevInput
        next == [groups |-> IF inputChanged /\ activeGroupOf(st.groups, st.groupId) # <<>>
                            THEN updateGroupInputText(st.groups, st.groupId, st.input, t)
                            ELSE st.groups,
                 groupId |-> st.groupId,
                 stepId |-> repairSelection(st.groups, st.groupId, st.stepId),
                 input |-> IF initChanged THEN init ELSE st.input,
                 anchorId |-> scopeAnchorEffect(st.groups, st.groupId, st.stepId, st.anchorId)]
    IN  IF next = st /\ ~initChanged /\ ~inputChanged THEN st
        ELSE renderEffects(next, init, st.input, t)

\* What the timer callback closes over: the values of the render that set it
Closure(input, steps, has, scope, anchorId) ==
    [inputText |-> input, activeSteps |-> steps, hasActiveGroup |-> has,
     runScope |-> scope, scopeStepId |-> anchorId, latest |-> TRUE]

\* A cleanup that cancels nothing
clearTimeoutNone(ts) == ts

\* The cleanup of the scheduling effect: window.clearTimeout(timer) of the
\* timer that the effect's last run created
clearTimeout(ts) == SelectSeq(ts, LAMBDA tm : ~tm.latest)

\* window.setTimeout(callback, BUBBLE_DELAY)
setTimeout(ts, closure) ==
    Append([i \in 1..Len(ts) |-> [ts[i] EXCEPT !.latest = FALSE]], closure)

\* The scheduling effect re-running: cleanup, then a new timer
schedulerEffect(ts, closure) == setTimeout(clearTimeout(ts), closure)

----------------------------------------------------------------------------
(* Persistence.  A payload is what localStorage holds under STORAGE_KEY:     *)
(* nothing, text that JSON.parse rejects, or JSON text, given by the kind of *)
(* its top-level value and, for an object, its five properties.  `version`   *)
(* is the JSON text of the property ("absent" when there is none); a         *)
(* collection is an array of items or something that is not an array.        *)

PayloadKinds == {"missing", "unparsable", "null", "number", "string", "array", "object"}

NotAnArray == [isArray |-> FALSE, items |-> <<>>]

ArrayOf(items) == [isArray |-> TRUE, items |-> items]

Payload(kind, version, groups, groupId, stepId, library) ==
    [kind |-> kind, version |-> version, stepGroups |-> groups, selectedGroupId |-> groupId,
     selectedStepId |-> stepId, librarySteps |-> library]

\* a payload that is not an object has none of the properties
Bare(kind) == Payload(kind, "absent", NotAnArray, Null, Null, NotAnArray)

\* the envelope loadStoredState returns when it discards the payload
EmptyStored ==
    [version |-> STORAGE_VERSION, stepGroups |-> <<>>, selectedGroupId |-> Null,
     selectedStepId |-> Null, librarySteps |-> <<>>]

\* { ...group, inputText: group.inputText ?? '' }
withInputText(group) ==
    IF group.inputText = <<>> THEN [group EXCEPT !.inputText = <<EmptyText>>] ELSE group

\* A loader that takes the payload's collections and selections whatever its version
loadStoredStateAnyVersion(payload) ==
    IF payload.kind \in {"missing", "unparsable", "null"} THEN EmptyStored
    ELSE [version |-> STORAGE_VERSION,
          stepGroups |-> [i \in 1..Len(payload.stepGroups.items) |->
                             withInputText(payload.stepGroups.items[i])],
          selectedGroupId |-> payload.selectedGroupId,
          selectedStepId |-> payload.selectedStepId,
          librarySteps |-> payload.librarySteps.items]

\* A loader that returns the stored groups as they are
loadStoredStateAsIs(payload) ==
    IF payload.kind \in {"missing", "unparsable", "null"} THEN EmptyStored
    ELSE IF payload.version # ToString(STORAGE_VERSION) THEN EmptyStored
    ELSE [version |-> STORAGE_VERSION,
          stepGroups |-> IF payload.stepGroups.isArray THEN payload.stepGroups.items
                         ELSE <<>>,
          selectedGroupId |-> payload.selectedGroupId,
          selectedStepId |-> payload.selectedStepId,
          librarySteps |-> IF payload.librarySteps.isArray THEN payload.librarySteps.items
                           ELSE <<>>]

\* loadStoredState: !raw, a JSON.parse that throws and a falsy parsed value
\* give the empty state, and so does a version other than STORAGE_VERSION
loadStoredState(payload) ==
    IF payload.kind = "missing" THEN EmptyStored
    ELSE IF payload.kind = "unparsable" THEN EmptyStored
    ELSE IF payload.kind = "null" THEN EmptyStored
    ELSE IF payload.version # ToString(STORAGE_VERSION) THEN EmptyStored
    ELSE [version |-> STORAGE_VERSION,
          stepGroups |-> IF payload.stepGroups.isArray
                         THEN [i \in 1..Len(payload.stepGroups.items) |->
                                  withInputText(payload.stepGroups.items[i])]
                         ELSE <<>>,
          selectedGroupId |-> payload.selectedGroupId,
          selectedStepId |-> payload.selectedStepId,
          librarySteps |-> IF payload.librarySteps.isArray THEN payload.librarySteps.items
                           ELSE <<>>]

\* An envelope that leaves the selections out
EnvelopeNoSelection(groups, groupId, stepId, library) ==
    Payload("object", ToString(STORAGE_VERSION), ArrayOf(groups), Null, Null,
            ArrayOf(library))

\* JSON.stringify(state) of the persist effect, as the payload it stores: a
\* property whose value is undefined (a group's inputText) is left out
Envelope(groups, groupId, stepId, library) ==
    Payload("object", ToString(STORAGE_VERSION), ArrayOf(groups), groupId, stepId,
            ArrayOf(library))

----------------------------------------------------------------------------
(* The state after an event handler has run and React has re-rendered *)

\* A dependency array without inputText (and so without runPipeline)
depsChangedNoInput(stepsReplaced, groupSwitched, inputChanged, anchorChanged, hasChanged) ==
    stepsReplaced \/ groupSwitched \/ anchorChanged \/ hasChanged

\* A dependency array without activeSteps (and so without runPipeline)
depsChangedNoSteps(stepsReplaced, groupSwitched, inputChanged, anchorChanged, hasChanged) ==
    inputChanged \/ anchorChanged \/ hasChanged

\* The dependency array of the scheduling effect, compared with the previous
\* render's: activeSteps is a new array when a handler replaced the active
\* group's steps or another group became active; runPipeline changes exactly
\* when inputText, activeSteps, runScope or scopeStepId does.
depsChanged(stepsReplaced, groupSwitched, inputChanged, anchorChanged, hasChanged) ==
    stepsReplaced \/ groupSwitched \/ inputChanged \/ anchorChanged \/ hasChanged

\* groups1, groupId1, stepId1, input1: the state the handler set;
\* stepsReplaced: the handler gave the active group a new steps array.
\* The scheduling effect re-runs when one of its dependencies changed.
\* The last render st of a handler's cascade is the state; the persist effect
\* has stored its envelope, or has failed, and the scheduling effect has run
\* if one of its dependencies changed
Rendered(st, stepsReplaced, library1) ==
    LET has1 == activeGroupOf(st.groups, st.groupId) # <<>>
        groupSwitched ==
            firstIdOrNull(activeGroupOf(stepGroups, selectedGroupId)) #
                firstIdOrNull(activeGroupOf(st.groups, st.groupId))
        changed == depsChanged(stepsReplaced, groupSwitched, st.input # inputText,
                               st.anchorId # scopeStepId, has1 # hasActiveGroup)
        envelope == Envelope(st.groups, st.groupId, st.stepId, library1)
        fails == envelope # storage /\ storageFull
    IN  /\ stepGroups' = st.groups
        /\ librarySteps' = library1
        /\ storage' = IF fails THEN storage ELSE envelope
        /\ mounted' = ~fails
        /\ uncaught' = fails
        /\ UNCHANGED storageFull
        /\ selectedGroupId' = st.groupId
        /\ selectedStepId' = st.stepId
        /\ inputText' = st.input
        /\ scopeStepId' = st.anchorId
        /\ timers' = IF fails THEN <<>>
                     ELSE IF changed
                     THEN schedulerEffect(timers,
                              Closure(st.input, activeStepsOf(st.groups, st.groupId), has1,
                                      runScope, st.anchorId))
                     ELSE timers
        /\ runsSinceChange' = IF changed THEN 0 ELSE runsSinceChange
        /\ lastRun' = IF changed THEN <<>> ELSE lastRun
        /\ burst' = IF ~changed THEN burst ELSE IF timers # <<>> THEN burst + 1 ELSE 1
        /\ UNCHANGED <<outputText, stepErrors, now, searchVars>>

\* library1: the library the handler set.  The persist effect stores the
\* envelope of the new state; localStorage.setItem throws when the storage is
\* full, nothing catches it, and React unmounts the app (the cleanup of the
\* scheduling effect clears the timer).
CommitWith(groups1, groupId1, stepId1, input1, stepsReplaced, library1) ==
    Rendered(renderEffects([groups |-> groups1, groupId |-> groupId1, stepId |-> stepId1,
                            input |-> input1, anchorId |-> scopeStepId],
                           initialInputTextOf(stepGroups, selectedGroupId), inputText, now),
             stepsReplaced, library1)

\* probe keeps the last call of a handler in the behaviours that start with a
\* record in it, and stays empty in the others
Recorded(call) == IF probe = <<>> THEN <<>> ELSE <<call>>

\* A handler of the groups and steps, and the call to keep
CommitCall(groups1, groupId1, stepId1, input1, stepsReplaced, call) ==
    /\ CommitWith(groups1, groupId1, stepId1, input1, stepsReplaced, librarySteps)
    /\ probe' = Recorded(call)

Commit(groups1, groupId1, stepId1, input1, stepsReplaced) ==
    CommitCall(groups1, groupId1, stepId1, input1, stepsReplaced, [fn |-> "handler"])

----------------------------------------------------------------------------
(* usePipeline: runPipeline and the timer callback *)

\* runPipeline(scope, anchorId) in a render with inputText = input and
\* activeSteps = steps
\* A runPipeline that publishes the engine's output even when a step failed
runPipelineRaw(scope, anchorId, input, steps) ==
    LET result == executePipeline(scope, anchorId, input, steps) IN
    /\ stepErrors' = result.errors
    /\ outputText' = result.output

runPipeline(scope, anchorId, input, steps) ==
    LET result == executePipeline(scope, anchorId, input, steps) IN
    /\ stepErrors' = result.errors
    /\ outputText' = runPipelineOutput(result)

\* A callback without the hasActiveGroup check
timerCallbackUnguarded(c) ==
    /\ runPipeline(c.runScope, c.scopeStepId, c.inputText, c.activeSteps)
    /\ runsSinceChange' = runsSinceChange + 1
    /\ lastRun' = <<[executed |-> TRUE, inputText |-> c.inputText,
                     activeSteps |-> c.activeSteps,
                     result |-> executePipeline(c.runScope, c.scopeStepId,
                                                c.inputText, c.activeSteps)]>>

\* () => { if (!hasActiveGroup) return; runPipeline() }
timerCallback(c) ==
    IF ~c.hasActiveGroup
    THEN /\ UNCHANGED <<outputText, stepErrors>>
         /\ runsSinceChange' = runsSinceChange
         /\ lastRun' = <<[executed |-> FALSE, inputText |-> c.inputText,
                          activeSteps |-> c.activeSteps]>>
    ELSE /\ runPipeline(c.runScope, c.scopeStepId, c.inputText, c.activeSteps)
         /\ runsSinceChange' = runsSinceChange + 1
         /\ lastRun' = <<[executed |-> TRUE, inputText |-> c.inputText,
                          activeSteps |-> c.activeSteps,
                          result |-> executePipeline(c.runScope, c.scopeStepId,
                                                     c.inputText, c.activeSteps)]>>

RemoveAt(seq, i) == SubSeq(seq, 1, i - 1) \o SubSeq(seq, i + 1, Len(seq))

\* A live timer's delay elapses
TimerFire ==
    \E i \in 1..Len(timers) :
        /\ mounted
        /\ timers' = RemoveAt(timers, i)
        /\ timerCallback(timers[i])
        /\ UNCHANGED <<stepGroups, selectedGroupId, selectedStepId, inputText, scopeStepId,
                       mounted, nextId, now, deleteVars, ops, burst, probe>>
        /\ UNCHANGED <<storeVars, searchVars>>

\* The component is torn down: the scheduling effect's cleanup runs
Unmount ==
    /\ mounted
    /\ mounted' = FALSE
    /\ timers' = clearTimeout(timers)
    /\ ops' = ops + 1
    /\ UNCHANGED <<stepGroups, selectedGroupId, selectedStepId, inputText, outputText,
                   stepErrors, scopeStepId, nextId, now, deleteVars, burst,
                   runsSinceChange, lastRun, probe>>
    /\ UNCHANGED <<storeVars, searchVars>>

----------------------------------------------------------------------------
(* User actions *)

\* the input editor's onChange (rendered only while a group is active)
SetInputText(text) ==
    /\ mounted /\ hasActiveGroup
    /\ text # inputText
    /\ CommitCall(stepGroups, selectedGroupId, selectedStepId, text, FALSE,
                  [fn |-> "setInputText", text |-> text])
    /\ ops' = ops + 1
    /\ UNCHANGED <<nextId, deleteVars>>

addGroup ==
    /\ mounted
    /\ Commit(Append(stepGroups, createGroup(Len(stepGroups) + 1, nextId, now)),
              nextId, selectedStepId, inputText, FALSE)
    /\ nextId' = nextId + 1
    /\ ops' = ops + 1
    /\ UNCHANGED deleteVars

setSelectedGroupId(id) ==
    /\ mounted
    /\ id # selectedGroupId
    /\ CommitCall(stepGroups, id, selectedStepId, inputText, FALSE,
                  [fn |-> "setSelectedGroupId", id |-> id])
    /\ ops' = ops + 1
    /\ UNCHANGED <<nextId, deleteVars>>

deleteGroup(id) ==
    /\ mounted
    /\ LET next == SelectSeq(stepGroups, LAMBDA group : group.id # id) IN
       CommitCall(next,
                  IF selectedGroupId = id THEN firstIdOrNull(next) ELSE selectedGroupId,
                  selectedStepId, inputText, FALSE,
                  [fn |-> "deleteGroup", id |-> id, before |-> stepGroups,
                   selectedGroupId |-> selectedGroupId])
    /\ ops' = ops + 1
    /\ UNCHANGED <<nextId, deleteVars>>

\* An updater that numbers the new step by the length before it is added
addStepUpdaterLength(prev, id, t) == Append(prev, createStep(Len(prev), id, t))

addStepUpdater(prev, id, t) == Append(prev, createStep(Len(prev) + 1, id, t))

addStep ==
    /\ mounted /\ hasActiveGroup
    /\ LET next == addStepUpdater(activeSteps, nextId, now) IN
       CommitCall(updateActiveSteps(stepGroups, selectedGroupId, next, now),
                  selectedGroupId, nextId, inputText, TRUE,
                  [fn |-> "addStep", before |-> activeSteps])
    /\ nextId' = nextId + 1
    /\ ops' = ops + 1
    /\ UNCHANGED deleteVars

\* { ...step, ...updates, updatedAt: Date.now() } for updates = { [field]: value }
applyUpdates(step, field, value, t) ==
    CASE field = "title" -> [step EXCEPT !.title = value, !.updatedAt = t]
      [] field = "code" -> [step EXCEPT !.code = value, !.updatedAt = t]
      [] field = "muted" -> [step EXCEPT !.muted = value, !.updatedAt = t]

updateStepUpdater(prev, id, field, value, t) ==
    [i \in 1..Len(prev) |->
        IF prev[i].id = id THEN applyUpdates(prev[i], field, value, t) ELSE prev[i]]

updateStep(id, field, value) ==
    /\ mounted /\ hasActiveGroup
    /\ LET next == updateStepUpdater(activeSteps, id, field, value, now) IN
       CommitCall(updateActiveSteps(stepGroups, selectedGroupId, next, now),
                  selectedGroupId, selectedStepId, inputText, TRUE,
                  [fn |-> "updateStep", id |-> id])
    /\ ops' = ops + 1
    /\ UNCHANGED <<nextId, deleteVars>>

\* A move without the range check, that takes the nearest position instead
moveUpdaterClamped(prev, fromIndex, toIndex) ==
    LET near(i) == IF i < 0 THEN 0 ELSE IF i >= Len(prev) THEN Len(prev) - 1 ELSE i
        moved == prev[near(fromIndex) + 1]
        rest == RemoveAt(prev, near(fromIndex) + 1)
    IN  IF prev = <<>> THEN prev
        ELSE SubSeq(rest, 1, near(toIndex)) \o <<moved>>
                \o SubSeq(rest, near(toIndex) + 1, Len(rest))

\* A move that exchanges the two positions
moveUpdaterSwap(prev, fromIndex, toIndex) ==
    IF fromIndex < 0 \/ fromIndex >= Len(prev) \/ toIndex < 0 \/ toIndex >= Len(prev)
    THEN prev
    ELSE [i \in 1..Len(prev) |->
             IF i = fromIndex + 1 THEN prev[toIndex + 1]
             ELSE IF i = toIndex + 1 THEN prev[fromIndex + 1]
             ELSE prev[i]]

\* indices are 0-based, as in the code
moveUpdater(prev, fromIndex, toIndex) ==
    IF fromIndex < 0 \/ fromIndex >= Len(prev) \/ toIndex < 0 \/ toIndex >= Len(prev)
    THEN prev
    ELSE LET moved == prev[fromIndex + 1]
             rest == RemoveAt(prev, fromIndex + 1)
         IN  SubSeq(rest, 1, toIndex) \o <<moved>> \o SubSeq(rest, toIndex + 1, Len(rest))

moveStep(fromIndex, toIndex) ==
    /\ mounted /\ hasActiveGroup
    /\ LET next == moveUpdater(activeSteps, fromIndex, toIndex) IN
       CommitCall(updateActiveSteps(stepGroups, selectedGroupId, next, now),
                  selectedGroupId, selectedStepId, inputText, TRUE,
                  [fn |-> "moveStep", fromIndex |-> fromIndex, toIndex |-> toIndex,
                   before |-> activeSteps])
    /\ ops' = ops + 1
    /\ UNCHANGED <<nextId, deleteVars>>

\* requestDeleteStep: the step is marked, and deleteStep(id) runs 220 ms later
\* in the closure of this render
requestDeleteStep(id) ==
    /\ mounted /\ hasActiveGroup
    /\ deletingStepIds' = deletingStepIds \cup {id}
    /\ pendingDeletes' = pendingDeletes \cup
           {[id |-> id, groupId |-> selectedGroupId, selectedStepId |-> selectedStepId]}
    /\ UNCHANGED pendingCleanups
    /\ ops' = ops + 1
    /\ UNCHANGED <<stepGroups, selectedGroupId, selectedStepId, inputText, outputText,
                   stepErrors, scopeStepId, timers, mounted, nextId, now, burst,
                   runsSinceChange, lastRun, probe>>
    /\ UNCHANGED <<storeVars, searchVars>>

deleteStepUpdater(prev, id) == SelectSeq(prev, LAMBDA step : step.id # id)

\* The delayed deleteStep(id) of a request p runs, and sets the timer that
\* clears the mark
deleteStep(p) ==
    /\ mounted
    /\ p \in pendingDeletes
    /\ pendingDeletes' = pendingDeletes \ {p}
    /\ pendingCleanups' = pendingCleanups \cup {p.id}
    /\ UNCHANGED deletingStepIds
    /\ LET next == deleteStepUpdater(activeStepsOf(stepGroups, p.groupId), p.id)
           target == activeGroupOf(stepGroups, p.groupId)
       IN  CommitCall(updateActiveSteps(stepGroups, p.groupId, next, now),
                      selectedGroupId,
                      IF target # <<>> /\ p.selectedStepId = p.id
                      THEN firstIdOrNull(next)
                      ELSE selectedStepId,
                      inputText,
                      target # <<>> /\ p.groupId = selectedGroupId,
                      [fn |-> "deleteStep", id |-> p.id, groupId |-> p.groupId,
                       before |-> activeStepsOf(stepGroups, p.groupId),
                       selectedStepId |-> selectedStepId, closure |-> p])
    /\ UNCHANGED <<nextId, ops>>

\* The 0 ms timer set after deleteStep runs: delete next[id]
cleanupDeleting(id) ==
    /\ mounted
    /\ id \in pendingCleanups
    /\ pendingCleanups' = pendingCleanups \ {id}
    /\ deletingStepIds' = deletingStepIds \ {id}
    /\ UNCHANGED <<stepGroups, selectedGroupId, selectedStepId, inputText, outputText,
                   stepErrors, scopeStepId, timers, mounted, nextId, now, pendingDeletes,
                   ops, burst, runsSinceChange, lastRun, probe>>
    /\ UNCHANGED <<storeVars, searchVars>>

\* onSelect of a step card: setSelectedStepId(id)
setSelectedStepId(id) ==
    /\ mounted
    /\ id # selectedStepId
    /\ Commit(stepGroups, selectedGroupId, id, inputText, FALSE)
    /\ ops' = ops + 1
    /\ UNCHANGED <<nextId, deleteVars>>

updateGroupTitle(id, title) ==
    /\ mounted
    /\ Commit([i \in 1..Len(stepGroups) |->
                  IF stepGroups[i].id = id
                  THEN [stepGroups[i] EXCEPT !.title = title, !.updatedAt = now]
                  ELSE stepGroups[i]],
              selectedGroupId, selectedStepId, inputText, FALSE)
    /\ ops' = ops + 1
    /\ UNCHANGED <<nextId, deleteVars>>

----------------------------------------------------------------------------
(* The library (useLibrary) *)

\* A library step that takes the id of the step it copies
createLibraryStepSeedId(index, id, t, seed) ==
    [id |-> IF seed = <<>> THEN id ELSE seed[1].id,
     title |-> IF seed = <<>>
               THEN <<"L","i","b","r","a","r","y"," ","S","t","e","p"," ">> \o NumberText(index)
               ELSE seed[1].title,
     code |-> IF seed = <<>> THEN DEFAULT_CODE ELSE seed[1].code,
     createdAt |-> t,
     updatedAt |-> t]

\* seed is <<>> or <<the step to copy>>
createLibraryStep(index, id, t, seed) ==
    [id |-> id,
     title |-> IF seed = <<>>
               THEN <<"L","i","b","r","a","r","y"," ","S","t","e","p"," ">> \o NumberText(index)
               ELSE seed[1].title,
     code |-> IF seed = <<>> THEN DEFAULT_CODE ELSE seed[1].code,
     createdAt |-> t,
     updatedAt |-> t]

\* A handler of the library: the groups and the selections stay as they are
CommitLibrary(library1, call) ==
    /\ CommitWith(stepGroups, selectedGroupId, selectedStepId, inputText, FALSE, library1)
    /\ probe' = Recorded(call)

addLibraryStep ==
    /\ mounted
    /\ CommitLibrary(Append(librarySteps,
                            createLibraryStep(Len(librarySteps) + 1, nextId, now, <<>>)),
                     [fn |-> "addLibraryStep"])
    /\ nextId' = nextId + 1
    /\ ops' = ops + 1
    /\ UNCHANGED deleteVars

\* updates = { [field]: value } for field title or code
updateLibraryStep(id, field, value) ==
    /\ mounted
    /\ CommitLibrary([i \in 1..Len(librarySteps) |->
                         IF librarySteps[i].id = id
                         THEN applyUpdates(librarySteps[i], field, value, now)
                         ELSE librarySteps[i]],
                     [fn |-> "updateLibraryStep", id |-> id])
    /\ ops' = ops + 1
    /\ UNCHANGED <<nextId, deleteVars>>

deleteLibraryStep(id) ==
    /\ mounted
    /\ CommitLibrary(SelectSeq(librarySteps, LAMBDA step : step.id # id),
                     [fn |-> "deleteLibraryStep", id |-> id])
    /\ ops' = ops + 1
    /\ UNCHANGED <<nextId, deleteVars>>

moveLibraryStep(fromIndex, toIndex) ==
    /\ mounted
    /\ CommitLibrary(moveUpdater(librarySteps, fromIndex, toIndex),
                     [fn |-> "moveLibraryStep", fromIndex |-> fromIndex, toIndex |-> toIndex,
                      before |-> librarySteps])
    /\ ops' = ops + 1
    /\ UNCHANGED <<nextId, deleteVars>>

\* activeSteps.find((s) => s.id === stepToSave.id) ?? stepToSave
saveTarget(steps, stepToSave) ==
    IF findIndex(steps, stepToSave.id) = 0 THEN stepToSave
    ELSE steps[findIndex(steps, stepToSave.id)]

saveStepToLibrary(stepToSave) ==
    /\ mounted
    /\ CommitLibrary(Append(librarySteps,
                            createLibraryStep(Len(librarySteps) + 1, nextId, now,
                                              <<saveTarget(activeSteps, stepToSave)>>)),
                     [fn |-> "saveStepToLibrary", id |-> stepToSave.id])
    /\ nextId' = nextId + 1
    /\ ops' = ops + 1
    /\ UNCHANGED deleteVars

\* next.splice(start, 0, item): a start beyond the end is the end, a negative
\* start counts from the end and stops at the beginning
spliceInsert(prev, start, item) ==
    LET at == IF start > Len(prev) THEN Len(prev)
              ELSE IF start < 0 THEN (IF Len(prev) + start < 0 THEN 0 ELSE Len(prev) + start)
              ELSE start
    IN  SubSeq(prev, 1, at) \o <<item>> \o SubSeq(prev, at + 1, Len(prev))

\* A copy that keeps the template's id
newStepFromLibrarySameId(libraryStep, id, t) ==
    [id |-> libraryStep.id, title |-> libraryStep.title, code |-> libraryStep.code,
     muted |-> FALSE, createdAt |-> t, updatedAt |-> t]

newStepFromLibrary(libraryStep, id, t) ==
    [id |-> id, title |-> libraryStep.title, code |-> libraryStep.code,
     muted |-> FALSE, createdAt |-> t, updatedAt |-> t]

\* index is <<>> (no argument) or <<a number>>
addFromLibraryUpdater(prev, newStep, index) ==
    IF index # <<>> THEN spliceInsert(prev, index[1], newStep) ELSE Append(prev, newStep)

\* without an active group updateActiveSteps returns before the updater runs
addStepFromLibrary(libraryStep, index) ==
    /\ mounted
    /\ IF hasActiveGroup
       THEN LET newStep == newStepFromLibrary(libraryStep, nextId, now)
                next == addFromLibraryUpdater(activeSteps, newStep, index)
            IN  /\ CommitCall(updateActiveSteps(stepGroups, selectedGroupId, next, now),
                              selectedGroupId, newStep.id, inputText, TRUE,
                              [fn |-> "addStepFromLibrary", libraryStep |-> libraryStep,
                               index |-> index, before |-> activeSteps])
                /\ nextId' = nextId + 1
       ELSE /\ CommitCall(stepGroups, selectedGroupId, selectedStepId, inputText, FALSE,
                          [fn |-> "addStepFromLibrary", libraryStep |-> libraryStep,
                           index |-> index, before |-> activeSteps])
            /\ UNCHANGED nextId
    /\ ops' = ops + 1
    /\ UNCHANGED deleteVars

\* The browser's storage fills up (other pages of the origin share the quota)
StorageFills ==
    /\ ~storageFull
    /\ storageFull' = TRUE
    /\ UNCHANGED <<stepGroups, selectedGroupId, selectedStepId, inputText, outputText,
                   stepErrors, scopeStepId, timers, mounted, nextId, now, deleteVars,
                   ops, burst, runsSinceChange, lastRun, probe, librarySteps, storage,
                   uncaught, searchVars>>

----------------------------------------------------------------------------
(* Start: loadStoredState, the hooks' initial state and the mount effects *)

Hello == <<"h","e","l","l","o">>

Padded == <<" ","h","i"," ">>

\* a step saved by an earlier session
storedStep(id, index, code, muted) ==
    [createStep(index, id, 0) EXCEPT !.code = code, !.muted = muted]

\* a group saved by an earlier session; loadStoredState gives it an inputText
storedGroup(id, index, steps, text) ==
    [createGroup(index, id, 0) EXCEPT !.steps = steps, !.inputText = <<text>>]

\* the step lists of length <= maxLen with codes from `codes`; ids from 2 on
StepLists(maxLen, codes) ==
    {[i \in 1..Len(f) |-> storedStep(i + 1, i, f[i][1], f[i][2])] :
        f \in UNION {[1..n -> codes \X BOOLEAN] : n \in 0..maxLen}}

\* stored envelopes with one selected group (id 1)
OneGroupStored(stepLists, texts) ==
    {[version |-> STORAGE_VERSION,
      stepGroups |-> <<storedGroup(1, 1, steps, text)>>,
      selectedGroupId |-> 1,
      selectedStepId |-> firstIdOrNull(steps),
      librarySteps |-> <<>>] : steps \in stepLists, text \in texts}

MaxOf(S) == CHOOSE x \in S : \A y \in S : y <= x

UsedIds(groups) ==
    {Null} \cup IdsOf(groups) \cup UNION {IdsOf(groups[i].steps) : i \in 1..Len(groups)}

\* The state after the first render and its effects, for a loaded envelope;
\* t is the time of the load
mountStateAt(stored, t) ==
    LET init == initialInputTextOf(stored.stepGroups, stored.selectedGroupId)
        first == [groups |-> IF activeGroupOf(stored.stepGroups, stored.selectedGroupId) # <<>>
                             THEN updateGroupInputText(stored.stepGroups,
                                                       stored.selectedGroupId, init, t)
                             ELSE stored.stepGroups,
                  groupId |-> stored.selectedGroupId,
                  stepId |-> repairSelection(stored.stepGroups, stored.selectedGroupId,
                                             stored.selectedStepId),
                  input |-> init,
                  anchorId |-> scopeAnchorEffect(stored.stepGroups, stored.selectedGroupId,
                                                 stored.selectedStepId, Null)]
    IN  renderEffects(first, init, init, t)

\* the first load of a session: the clock of the model starts at 0
mountState(stored) == mountStateAt(stored, 0)

\* the timer the scheduling effect sets on the first render
mountTimers(st) ==
    schedulerEffect(<<>>,
        Closure(st.input, activeStepsOf(st.groups, st.groupId),
                activeGroupOf(st.groups, st.groupId) # <<>>, runScope, st.anchorId))

\* st: the state after the first render and its effects
StartAt(st, library, probe0) ==
    /\ stepGroups = st.groups
    /\ selectedGroupId = st.groupId
    /\ selectedStepId = st.stepId
    /\ inputText = st.input
    /\ outputText = EmptyText
    /\ stepErrors = NoErrors
    /\ scopeStepId = st.anchorId
    /\ timers = mountTimers(st)
    /\ mounted = TRUE
    /\ nextId = MaxOf(UsedIds(st.groups) \cup IdsOf(library)) + 1
    /\ now = 0
    /\ pendingDeletes = {}
    /\ deletingStepIds = {}
    /\ pendingCleanups = {}
    /\ groupSearch = EmptyText
    /\ stepSearch = EmptyText
    /\ librarySearch = EmptyText
    /\ ops = 0
    /\ burst = 1
    /\ runsSinceChange = 0
    /\ lastRun = <<>>
    /\ probe = probe0
    /\ librarySteps = library
    /\ storage = Envelope(st.groups, st.groupId, st.stepId, library)
    /\ storageFull = FALSE
    /\ uncaught = FALSE

\* probe0: what probe holds at the start
StartWith(stored, probe0) == StartAt(mountState(stored), stored.librarySteps, probe0)

InitWith(stored) == StartWith(stored, <<>>)

\* what the hooks hold of the envelope
StoreOf(groups, groupId, stepId, library) ==
    [stepGroups |-> groups, selectedGroupId |-> groupId, selectedStepId |-> stepId,
     librarySteps |-> library]

\* The page is loaded again: loadStoredState reads what the last session
\* stored, the hooks start from it and the first render's effects run (the
\* persist effect among them).  probe keeps what the last session held and
\* what was loaded.
ReloadAt(stored, st) ==
    LET envelope == Envelope(st.groups, st.groupId, st.stepId, stored.librarySteps)
        fails == envelope # storage /\ storageFull
    IN  /\ probe' = <<[fn |-> "reload",
                       saved |-> StoreOf(stepGroups, selectedGroupId, selectedStepId,
                                         librarySteps),
                       written |-> ~uncaught,
                       loaded |-> StoreOf(stored.stepGroups, stored.selectedGroupId,
                                          stored.selectedStepId, stored.librarySteps)]>>
        /\ stepGroups' = st.groups
        /\ selectedGroupId' = st.groupId
        /\ selectedStepId' = st.stepId
        /\ inputText' = st.input
        /\ outputText' = EmptyText
        /\ stepErrors' = NoErrors
        /\ scopeStepId' = st.anchorId
        /\ timers' = IF fails THEN <<>> ELSE mountTimers(st)
        /\ mounted' = ~fails
        /\ pendingDeletes' = {}
        /\ deletingStepIds' = {}
        /\ pendingCleanups' = {}
        /\ groupSearch' = EmptyText
        /\ stepSearch' = EmptyText
        /\ librarySearch' = EmptyText
        /\ ops' = ops + 1
        /\ burst' = 1
        /\ runsSinceChange' = 0
        /\ lastRun' = <<>>
        /\ librarySteps' = stored.librarySteps
        /\ storage' = IF fails THEN storage ELSE envelope
        /\ uncaught' = fails
        /\ UNCHANGED <<nextId, now, storageFull>>

ReloadStored(stored) == ReloadAt(stored, mountStateAt(stored, now))

Reload == ReloadStored(loadStoredState(storage))

----------------------------------------------------------------------------
(* The app: every user action, the debounce timer and the delayed deletes *)

MainCodes == {DEFAULT_CODE, CodeUpper, CodeThrowBad}

MainTexts == {EmptyText, Hello}

MainTitles == {<<"x">>}

Init == \E stored \in {EmptyStored} \cup OneGroupStored(StepLists(MaxInitSteps, MainCodes), MainTexts) :
            InitWith(stored)

\* the user can still act
CanAct == ops < MaxOps

TypeInput == CanAct /\ \E text \in MainTexts : SetInputText(text)

AddGroup == CanAct /\ addGroup

SelectGroup == CanAct /\ \E id \in IdsOf(stepGroups) : setSelectedGroupId(id)

DeleteGroup == CanAct /\ \E id \in IdsOf(stepGroups) : deleteGroup(id)

AddStep == CanAct /\ addStep

EditCode ==
    CanAct /\ \E id \in IdsOf(activeSteps), code \in MainCodes : updateStep(id, "code", code)

ToggleMuted ==
    CanAct /\ \E i \in 1..Len(activeSteps) :
        updateStep(activeSteps[i].id, "muted", ~activeSteps[i].muted)

EditTitle ==
    CanAct /\ \E id \in IdsOf(activeSteps), title \in MainTitles : updateStep(id, "title", title)

\* a drag onto another step, or a drop on the sidebar (REORDER: to the end)
MoveStep ==
    CanAct /\ \E fromIndex, toIndex \in 0..(Len(activeSteps) - 1) : moveStep(fromIndex, toIndex)

RequestDeleteStep == CanAct /\ \E id \in IdsOf(activeSteps) : requestDeleteStep(id)

Teardown == CanAct /\ Unmount

DeleteStepFire == \E p \in pendingDeletes : deleteStep(p)

DeleteCleanupFire == \E id \in pendingCleanups : cleanupDeleting(id)

Next ==
    \/ TypeInput
    \/ AddGroup
    \/ SelectGroup
    \/ DeleteGroup
    \/ AddStep
    \/ EditCode
    \/ ToggleMuted
    \/ EditTitle
    \/ MoveStep
    \/ RequestDeleteStep
    \/ Teardown
    \/ TimerFire
    \/ DeleteStepFire
    \/ DeleteCleanupFire

Spec == Init /\ [][Next]_vars

\* The app started with nothing stored, or with one group of one step
LiveInit ==
    \E stored \in {EmptyStored} \cup
            OneGroupStored({<<storedStep(2, 1, CodeUpper, FALSE)>>,
                            <<storedStep(2, 1, CodeThrowBad, FALSE)>>}, {Hello}) :
        InitWith(stored)

\* A timer whose delay has elapsed does fire: the browser runs its callback
SpecLive == LiveInit /\ [][Next]_vars /\ WF_vars(TimerFire)

----------------------------------------------------------------------------
(* The engine called directly: usePipeline returns executePipeline and       *)
(* runPipeline, which take any scope and anchor.  The pipelines and inputs   *)
(* are those of every stored group within the bounds.                        *)

EngineCodes ==
    {CodeUpper, CodeAppend, CodeTrim, CodeNoReturn, CodeThrowBad, CodeThrowString}

EngineTexts == {Hello, Padded}

\* the anchors tried: null, every step of the pipeline, and an id of no step
EngineAnchors == {Null} \cup IdsOf(activeSteps) \cup {nextId}

EngineInit ==
    \E stored \in OneGroupStored(StepLists(MaxSteps, EngineCodes), EngineTexts) :
        InitWith(stored)

CallExecutePipeline ==
    \E scope \in RunScopes, anchorId \in EngineAnchors :
        /\ probe = <<>>
        /\ probe' = <<[fn |-> "executePipeline", scope |-> scope, anchorId |-> anchorId,
                       pipeline |-> resolveScopeSteps(scope, anchorId, activeSteps),
                       result |-> executePipeline(scope, anchorId, inputText, activeSteps)]>>
        /\ UNCHANGED <<stepGroups, selectedGroupId, selectedStepId, inputText, outputText,
                       stepErrors, scopeStepId, timers, mounted, nextId, now,
                       deleteVars, ops, burst, runsSinceChange, lastRun>>
        /\ UNCHANGED <<storeVars, searchVars>>

CallRunPipeline ==
    \E scope \in RunScopes, anchorId \in EngineAnchors :
        /\ probe = <<>>
        /\ probe' = <<[fn |-> "runPipeline", scope |-> scope, anchorId |-> anchorId,
                       pipeline |-> resolveScopeSteps(scope, anchorId, activeSteps),
                       result |-> executePipeline(scope, anchorId, inputText, activeSteps)]>>
        /\ runPipeline(scope, anchorId, inputText, activeSteps)
        /\ UNCHANGED <<stepGroups, selectedGroupId, selectedStepId, inputText,
                       scopeStepId, timers, mounted, nextId, now,
                       deleteVars, ops, burst, runsSinceChange, lastRun>>
        /\ UNCHANGED <<storeVars, searchVars>>

EngineNext == CallExecutePipeline \/ CallRunPipeline

SpecEngine == EngineInit /\ [][EngineNext]_vars

----------------------------------------------------------------------------
(* The editing scenario: input "hello" and one step that uppercases it; the  *)
(* user adds steps, edits their code and mutes them while the app re-runs.   *)

ScenarioCodes == {CodeUpper, CodeAppend, CodeThrowBad}

ScenarioInit ==
    \E stored \in OneGroupStored({<<storedStep(2, 1, CodeUpper, FALSE)>>}, {Hello}) :
        InitWith(stored)

CanEdit == ops < MaxEdits

ScenarioAddStep == CanEdit /\ addStep

ScenarioEditCode ==
    CanEdit /\ \E id \in IdsOf(activeSteps), code \in ScenarioCodes :
        updateStep(id, "code", code)

ScenarioToggleMuted ==
    CanEdit /\ \E i \in 1..Len(activeSteps) :
        updateStep(activeSteps[i].id, "muted", ~activeSteps[i].muted)

ScenarioNext ==
    \/ ScenarioAddStep
    \/ ScenarioEditCode
    \/ ScenarioToggleMuted
    \/ TimerFire

SpecScenario == ScenarioInit /\ [][ScenarioNext]_vars

----------------------------------------------------------------------------
(* The entity store: groups, steps, library and selections, their handlers, *)
(* the persist effect and a reload of the page.  The debounce timer does    *)
(* not fire here: a run of the pipeline changes none of the stored state.   *)

\* a library step saved by an earlier session
storedLibraryStep(id, index) ==
    [createLibraryStep(index, id, 0, <<>>) EXCEPT !.code = CodeUpper]

\* An earlier session's envelope: groupCount groups with ids 1..groupCount,
\* the first with stepCount steps, the second with the input text "hello",
\* and libraryCount library steps
StoredStore(groupCount, stepCount, libraryCount, groupId) ==
    LET steps == [i \in 1..stepCount |-> storedStep(groupCount + i, i, DEFAULT_CODE, FALSE)]
        groups == [g \in 1..groupCount |->
                      storedGroup(g, g, IF g = 1 THEN steps ELSE <<>>,
                                  IF g = 2 THEN Hello ELSE EmptyText)]
    IN  [version |-> STORAGE_VERSION,
         stepGroups |-> groups,
         selectedGroupId |-> groupId,
         selectedStepId |-> IF groupId = 1 THEN firstIdOrNull(steps) ELSE Null,
         librarySteps |-> [i \in 1..libraryCount |->
                              storedLibraryStep(groupCount + stepCount + i, i)]]

\* nothing stored; one group with one step and a library of one; one group
\* with steps and a library; several groups
StoreStarts ==
    {StoredStore(0, 0, 0, Null), StoredStore(1, 1, 1, 1),
     StoredStore(1, MaxSteps, MaxSteps, 1), StoredStore(MaxGroups, 0, 0, 1)}

StoreInit == \E stored \in StoreStarts : StartWith(stored, <<[fn |-> "start"]>>)

\* the positions a caller can pass: one before the first and one after the last too
Positions(items) == (0 - 1)..Len(items)

\* The handlers that take positions are called with every position on the
\* lists the session starts with, as its first action; later in the session
\* they are called as the sidebar calls them (a drop at the end, an append).
FirstAction == ops = 0

ElementsOf(items) == {items[i] : i \in 1..Len(items)}

SelectStep == CanAct /\ \E step \in ElementsOf(activeSteps) : setSelectedStepId(step.id)

RenameGroup ==
    CanAct /\ \E group \in ElementsOf(stepGroups), title \in MainTitles :
                 updateGroupTitle(group.id, title)

RenameStep ==
    CanAct /\ \E step \in ElementsOf(activeSteps), title \in MainTitles :
                 updateStep(step.id, "title", title)

StoreMoveStep ==
    FirstAction /\ \E fromIndex, toIndex \in Positions(activeSteps) :
                      moveStep(fromIndex, toIndex)

\* REORDER drop on the sidebar: moveStep(fromIndex, activeSteps.length - 1)
DropStepAtEnd ==
    CanAct /\ \E fromIndex \in 0..(Len(activeSteps) - 1) :
                 moveStep(fromIndex, Len(activeSteps) - 1)

DeleteStepRequest == CanAct /\ \E step \in ElementsOf(activeSteps) : requestDeleteStep(step.id)

AddLibraryStep == CanAct /\ addLibraryStep

EditLibraryStep ==
    CanAct /\ \E step \in ElementsOf(librarySteps), title \in MainTitles :
                 updateLibraryStep(step.id, "title", title)

DeleteLibraryStep == CanAct /\ \E step \in ElementsOf(librarySteps) : deleteLibraryStep(step.id)

MoveLibraryStep ==
    FirstAction /\ \E fromIndex, toIndex \in Positions(librarySteps) :
                      moveLibraryStep(fromIndex, toIndex)

\* drop on the library list: moveLibraryStep(fromIndex, librarySteps.length - 1)
DropLibraryStepAtEnd ==
    CanAct /\ \E fromIndex \in 0..(Len(librarySteps) - 1) :
                 moveLibraryStep(fromIndex, Len(librarySteps) - 1)

SaveStepToLibrary == CanAct /\ \E step \in ElementsOf(activeSteps) : saveStepToLibrary(step)

AddStepFromLibrary ==
    FirstAction /\ \E i \in 1..Len(librarySteps) :
                      \E index \in {<<>>} \cup {<<n>> : n \in 0..Len(activeSteps)} :
                         addStepFromLibrary(librarySteps[i], index)

\* a click on a library step: addStepFromLibrary(libraryStep)
AppendFromLibrary ==
    CanAct /\ \E step \in ElementsOf(librarySteps) : addStepFromLibrary(step, <<>>)

ReloadPage == CanAct /\ Reload

StoreNext ==
    \/ TypeInput
    \/ AddGroup
    \/ SelectGroup
    \/ DeleteGroup
    \/ RenameGroup
    \/ AddStep
    \/ SelectStep
    \/ RenameStep
    \/ StoreMoveStep
    \/ DropStepAtEnd
    \/ DeleteStepRequest
    \/ DeleteStepFire
    \/ DeleteCleanupFire
    \/ AddLibraryStep
    \/ EditLibraryStep
    \/ DeleteLibraryStep
    \/ MoveLibraryStep
    \/ DropLibraryStepAtEnd
    \/ SaveStepToLibrary
    \/ AddStepFromLibrary
    \/ AppendFromLibrary
    \/ StorageFills
    \/ ReloadPage

SpecStore == StoreInit /\ [][StoreNext]_vars

----------------------------------------------------------------------------
(* The first load: the app starts on whatever the storage holds *)

\* the JSON text of the version property
LoadVersions == {"absent", "1", "2", "\"1\""}

LoadCollections(items) == {NotAnArray, ArrayOf(<<>>)} \cup {ArrayOf(<<item>>) : item \in items}

LoadGroups ==
    {createGroup(1, 1, 0), storedGroup(1, 1, <<storedStep(2, 1, DEFAULT_CODE, FALSE)>>, Hello)}

LoadPayloads ==
    {Bare(kind) : kind \in PayloadKinds \ {"object"}}
    \cup {Payload("object", version, groups, groupId, stepId, library) :
             version \in LoadVersions,
             groups \in LoadCollections(LoadGroups),
             groupId \in {Null, 1},
             stepId \in {Null, 2},
             library \in LoadCollections({storedLibraryStep(3, 1)})}

\* probe keeps the payload found and what loadStoredState made of it
LoadInit ==
    \E payload \in LoadPayloads :
        StartWith(loadStoredState(payload),
                  <<[fn |-> "load", payload |-> payload,
                     loaded |-> loadStoredState(payload)]>>)

LoadNext == ReloadPage

SpecLoad == LoadInit /\ [][LoadNext]_vars

----------------------------------------------------------------------------
(* Search (useSearch) and the lists the sidebars show *)

\* the characters of a code
CodeText(code) ==
    CASE code = DEFAULT_CODE ->
          <<"r","e","t","u","r","n"," ","i","n","p","u","t">>
      [] code = CodeUpper ->
          <<"r","e","t","u","r","n"," ","i","n","p","u","t",".","t","o","U","p","p","e","r","C","a","s","e","(",")">>
      [] code = CodeAppend ->
          <<"r","e","t","u","r","n"," ","i","n","p","u","t"," ","+"," ","\"","!","\"">>
      [] code = CodeTrim ->
          <<"r","e","t","u","r","n"," ","h","e","l","p","e","r","s",".","t","r","i","m","(","i","n","p","u","t",")">>
      [] code = CodeNoReturn ->
          <<"h","e","l","p","e","r","s",".","l","o","w","e","r","(","i","n","p","u","t",")">>
      [] code = CodeThrowBad ->
          <<"t","h","r","o","w"," ","n","e","w"," ","E","r","r","o","r","(","\"","b","a","d","\"",")">>
      [] code = CodeThrowString ->
          <<"t","h","r","o","w"," ","\"","o","o","p","s","\"">>

\* text.includes(query)
includes(text, query) ==
    \E i \in 0..(Len(text) - Len(query)) : SubSeq(text, i + 1, i + Len(query)) = query

\* A query that keeps its case
searchQueryCased(search) == trim(search)

\* search.trim().toLowerCase()
searchQuery(search) == toLowerCase(trim(search))

visibleGroupsOf(search, groups) ==
    IF searchQuery(search) = EmptyText THEN groups
    ELSE SelectSeq(groups, LAMBDA group : includes(toLowerCase(group.title), searchQuery(search)))

\* step.title.toLowerCase().includes(query) || step.code.toLowerCase().includes(query)
matchesStep(step, query) ==
    \/ includes(toLowerCase(step.title), query)
    \/ includes(toLowerCase(CodeText(step.code)), query)

visibleStepsOf(search, steps) ==
    IF searchQuery(search) = EmptyText THEN steps
    ELSE SelectSeq(steps, LAMBDA step : matchesStep(step, searchQuery(search)))

visibleGroups == visibleGroupsOf(groupSearch, stepGroups)

visibleSteps == visibleStepsOf(stepSearch, activeSteps)

visibleLibrarySteps == visibleStepsOf(librarySearch, librarySteps)

\* A change of a search box: no effect depends on the queries
SearchChanged(call) ==
    /\ mounted
    /\ ops' = ops + 1
    /\ probe' = Recorded(call)
    /\ UNCHANGED <<stepGroups, selectedGroupId, selectedStepId, inputText, outputText,
                   stepErrors, scopeStepId, timers, mounted, nextId, now, deleteVars,
                   burst, runsSinceChange, lastRun, storeVars>>

setGroupSearch(value) ==
    /\ value # groupSearch
    /\ groupSearch' = value
    /\ SearchChanged([fn |-> "setGroupSearch"])
    /\ UNCHANGED <<stepSearch, librarySearch>>

setStepSearch(value) ==
    /\ value # stepSearch
    /\ stepSearch' = value
    /\ SearchChanged([fn |-> "setStepSearch"])
    /\ UNCHANGED <<groupSearch, librarySearch>>

setLibrarySearch(value) ==
    /\ value # librarySearch
    /\ librarySearch' = value
    /\ SearchChanged([fn |-> "setLibrarySearch"])
    /\ UNCHANGED <<groupSearch, stepSearch>>

\* A library item is dragged and dropped on another: the drag starts on the
\* item shown at position fromIndex (LIB_REORDER:${index}) and ends on the
\* item shown at position index; onDrop calls moveLibraryStep(fromIndex, index)
libraryItemDrop(fromIndex, index) ==
    /\ mounted
    /\ CommitLibrary(moveUpdater(librarySteps, fromIndex, index),
                     [fn |-> "libraryItemDrop",
                      dragged |-> visibleLibrarySteps[fromIndex + 1].id,
                      target |-> visibleLibrarySteps[index + 1].id,
                      before |-> librarySteps])
    /\ ops' = ops + 1
    /\ UNCHANGED <<nextId, deleteVars>>

\* what is typed in a search box
SearchQueries ==
    {EmptyText, <<" ">>, <<"1">>, <<"1"," ">>, <<"T">>, <<"U","P","P","E","R">>,
     <<"r","e","t","u","r","n">>, <<"x">>}

\* two groups, steps and a library whose second step has the default code
SearchStore ==
    [StoredStore(2, MaxSteps, MaxSteps, 1) EXCEPT !.librarySteps[2].code = DEFAULT_CODE]

\* the stores of the entity store, and one with two groups, steps and a library
SearchStarts == StoreStarts \cup {SearchStore}

SearchInit == \E stored \in SearchStarts : StartWith(stored, <<[fn |-> "start"]>>)

SetGroupSearch == CanAct /\ \E value \in SearchQueries : setGroupSearch(value)

SetStepSearch == CanAct /\ \E value \in SearchQueries : setStepSearch(value)

SetLibrarySearch == CanAct /\ \E value \in SearchQueries : setLibrarySearch(value)

LibraryItemDrop ==
    CanAct /\ \E fromIndex, index \in 0..(Len(visibleLibrarySteps) - 1) :
                 libraryItemDrop(fromIndex, index)

SearchNext ==
    \/ SetGroupSearch
    \/ SetStepSearch
    \/ SetLibrarySearch
    \/ RenameGroup
    \/ RenameStep
    \/ EditLibraryStep
    \/ LibraryItemDrop

SpecSearch == SearchInit /\ [][SearchNext]_vars

----------------------------------------------------------------------------
(* The entity store under a clock that advances: Date.now() is read by every *)
(* factory and every updater when it runs.                                   *)

\* last reading of the clock in one behaviour
MaxNow == 2

\* Time passes between two events
Tick ==
    /\ now < MaxNow
    /\ now' = now + 1
    /\ UNCHANGED <<stepGroups, selectedGroupId, selectedStepId, inputText, outputText,
                   stepErrors, scopeStepId, timers, mounted, nextId, deleteVars, ops,
                   burst, runsSinceChange, lastRun, probe>>
    /\ UNCHANGED <<storeVars, searchVars>>

\* two groups, the first selected with one step, and a library of one
ClockStarts == {StoredStore(2, 1, 1, 1)}

ClockInit == \E stored \in ClockStarts : StartWith(stored, <<[fn |-> "start"]>>)

ClockNext ==
    \/ Tick
    \/ TypeInput
    \/ AddGroup
    \/ SelectGroup
    \/ DeleteGroup
    \/ RenameGroup
    \/ AddStep
    \/ EditCode
    \/ ToggleMuted
    \/ RenameStep
    \/ DropStepAtEnd
    \/ DeleteStepRequest
    \/ DeleteStepFire
    \/ DeleteCleanupFire
    \/ AddLibraryStep
    \/ EditLibraryStep
    \/ DeleteLibraryStep
    \/ DropLibraryStepAtEnd
    \/ SaveStepToLibrary
    \/ AppendFromLibrary
    \/ ReloadPage

SpecClock == ClockInit /\ [][ClockNext]_vars

----------------------------------------------------------------------------
(* The transform engine, stated without the loop: a left fold over the       *)
(* steps that are not muted.                                                 *)

Unmuted(steps) == SelectSeq(steps, LAMBDA step : ~step.muted)

Prefix(steps, n) == [j \in 1..n |-> steps[j]]

\* the step's transform: what its function returns, as text
Transform(code, x) == String(OrEmptyString(Eval(code, x).val))

Raises(code, x) == Eval(code, x).threw

RECURSIVE FoldLeft(_, _)
FoldLeft(steps, x) ==
    IF steps = <<>> THEN x
    ELSE Transform(steps[Len(steps)].code, FoldLeft(Prefix(steps, Len(steps) - 1), x))

\* the value that reaches position k of the list: the fold of the unmuted steps before it
ValueAt(steps, k, x) == FoldLeft(Unmuted(Prefix(steps, k - 1)), x)

FailsAt(steps, k, x) == ~steps[k].muted /\ Raises(steps[k].code, ValueAt(steps, k, x))

\* positions of the unmuted steps whose evaluation raises on the value reaching
\* them, none having raised before
FirstFailures(steps, x) ==
    {k \in 1..Len(steps) : FailsAt(steps, k, x) /\ \A j \in 1..(k - 1) : ~FailsAt(steps, j, x)}

Range(seq) == {seq[i] : i \in 1..Len(seq)}

\* a direct call of the engine on the whole list
EngineCall == probe # <<>> /\ probe[1].scope = "all"

\* C1: for every ordered step list and input, when no unmuted step raises, the
\* engine's output is the left fold of the unmuted steps' transforms over the
\* input in list order, muted steps contribute nothing, the error map is empty
\* and no step is reported failed; the empty list returns the input unchanged.
C1_LeftFold ==
    EngineCall /\ FirstFailures(activeSteps, inputText) = {} =>
        /\ probe[1].result.output = FoldLeft(Unmuted(activeSteps), inputText)
        /\ probe[1].result.errors = NoErrors
        /\ probe[1].result.failedStep = <<>>
        /\ Range(probe[1].result.calls) = {activeSteps[i].id : i \in {j \in 1..Len(activeSteps) : ~activeSteps[j].muted}}
        /\ (activeSteps = <<>> => probe[1].result.output = inputText)

\* a run of two unmuted steps around a muted one that would have changed the text
C1_Witness ==
    /\ EngineCall
    /\ FirstFailures(activeSteps, inputText) = {}
    /\ Len(activeSteps) = 3
    /\ ~activeSteps[1].muted /\ activeSteps[2].muted /\ ~activeSteps[3].muted
    /\ activeSteps[1].code = CodeTrim /\ activeSteps[2].code = CodeAppend
    /\ activeSteps[3].code = CodeUpper
    /\ inputText = Padded
    /\ probe[1].result.output = <<"H","I">>

\* C2: when step k is the first unmuted step whose evaluation raises, the
\* engine returns the fold of the unmuted steps before k as output, step k as
\* the failed step, an error map with exactly one entry keyed by step k's id,
\* and evaluates no step after k.
C2_FirstFailure ==
    probe # <<>> =>
        LET resolved == probe[1].pipeline IN
        \A k \in FirstFailures(resolved, inputText) :
            /\ probe[1].result.output = ValueAt(resolved, k, inputText)
            /\ probe[1].result.failedStep = <<resolved[k]>>
            /\ DOMAIN probe[1].result.errors = {resolved[k].id}
            /\ \A j \in (k + 1)..Len(resolved) :
                   resolved[j].id \notin Range(probe[1].result.calls)
            /\ probe[1].result.calls[Len(probe[1].result.calls)] = resolved[k].id

\* the second of three unmuted steps raises after the first changed the text
C2_Witness ==
    /\ EngineCall
    /\ FirstFailures(activeSteps, inputText) = {2}
    /\ Len(activeSteps) = 3
    /\ \A i \in 1..3 : ~activeSteps[i].muted
    /\ activeSteps[1].code = CodeUpper /\ activeSteps[3].code = CodeAppend
    /\ inputText = Hello
    /\ probe[1].result.output = <<"H","E","L","L","O">>
    /\ probe[1].result.calls = <<activeSteps[1].id, activeSteps[2].id>>

\* a call with a scope that needs an anchor
ScopedCall == probe # <<>> /\ probe[1].scope \in {"from", "to"}

AnchorPositions == {i \in 1..Len(activeSteps) : activeSteps[i].id = probe[1].anchorId}

\* C9: with scope 'from' or 'to' and an anchor that is null or the id of no
\* step of the list, the resolver returns the entire list, as scope 'all' does.
C9_MissingAnchor ==
    ScopedCall /\ (probe[1].anchorId = Null \/ AnchorPositions = {}) =>
        /\ probe[1].pipeline = activeSteps
        /\ probe[1].result = executePipeline("all", probe[1].anchorId, inputText, activeSteps)

\* scope 'from' with the id of no step, on a list of three that the engine ran whole
C9_Witness ==
    /\ ScopedCall
    /\ probe[1].scope = "from"
    /\ probe[1].anchorId # Null /\ AnchorPositions = {}
    /\ Len(activeSteps) = 3
    /\ probe[1].pipeline = activeSteps
    /\ Len(probe[1].result.calls) = 3

\* C10: with the anchor at position i of the list, scope 'from' yields
\* positions i..end, scope 'to' yields positions 1..i, and scope 'all' yields
\* the whole list whatever the anchor.
C10_Window ==
    probe # <<>> =>
        /\ probe[1].scope = "all" => probe[1].pipeline = activeSteps
        /\ \A i \in AnchorPositions :
               /\ probe[1].scope = "from" =>
                      probe[1].pipeline =
                          [j \in 1..(Len(activeSteps) - i + 1) |-> activeSteps[i + j - 1]]
               /\ probe[1].scope = "to" =>
                      probe[1].pipeline = [j \in 1..i |-> activeSteps[j]]

\* scope 'to' anchored at the second of three steps: the engine ran two steps
C10_Witness ==
    /\ probe # <<>>
    /\ probe[1].scope = "to"
    /\ Len(activeSteps) = 3
    /\ AnchorPositions = {2}
    /\ probe[1].pipeline = <<activeSteps[1], activeSteps[2]>>
    /\ \A i \in 1..3 : ~activeSteps[i].muted
    /\ Len(probe[1].result.calls) = 2

----------------------------------------------------------------------------
(* The scheduler *)

HELLO == <<"H","E","L","L","O">>

Bad == <<"b","a","d">>

\* the display string of a failure, written out
ErrorIn(title, message) ==
    <<"E","r","r","o","r"," ","i","n"," ">> \o <<"\"">> \o title \o <<"\"">>
        \o <<":"," ">> \o message

\* the last timer callback ran the engine and nothing relevant changed since
RunSettled == lastRun # <<>> /\ lastRun[1].executed

\* C3: when a run settles, what is published is the engine's result: with no
\* failed step the output text is the engine's output and the error map is
\* empty; with a failed step the output text is one string naming the failed
\* step's title and its error message, and the error map holds that step's entry.
C3_Published ==
    RunSettled =>
        LET result == lastRun[1].result IN
        IF result.failedStep = <<>>
        THEN outputText = result.output /\ stepErrors = NoErrors
        ELSE LET failed == result.failedStep[1] IN
             /\ failed.id \in DOMAIN result.errors
             /\ outputText = ErrorIn(failed.title, result.errors[failed.id])
             /\ stepErrors = (failed.id :> result.errors[failed.id])

\* a settled run that halted at the step titled "x", after a step that ran
C3_Witness ==
    /\ RunSettled
    /\ timers = <<>>
    /\ lastRun[1].result.failedStep # <<>>
    /\ lastRun[1].result.failedStep[1].title = <<"x">>
    /\ outputText = ErrorIn(<<"x">>, Bad)
    /\ DOMAIN stepErrors = {lastRun[1].result.failedStep[1].id}

\* the steps of the editing scenario: the uppercasing step, then the added one
SecondStepTitle == <<"t","i","t","l","e"," ","2">>

ScenarioSteps(code, muted) ==
    /\ Len(activeSteps) = 2
    /\ activeSteps[1].code = CodeUpper /\ ~activeSteps[1].muted
    /\ activeSteps[2].code = code /\ activeSteps[2].muted = muted

ScenarioSettled == RunSettled /\ timers = <<>> /\ inputText = Hello

\* the stages of the sequence that hold as written
ScenarioStages ==
    /\ Len(activeSteps) = 1 /\ activeSteps[1].code = CodeUpper /\ ~activeSteps[1].muted =>
           outputText = HELLO /\ stepErrors = NoErrors
    /\ ScenarioSteps(CodeAppend, FALSE) =>
           outputText = HELLO \o <<"!">> /\ stepErrors = NoErrors
    /\ ScenarioSteps(CodeAppend, TRUE) =>
           outputText = HELLO /\ stepErrors = NoErrors

\* The sequence as first stated: with the second step muted and its code
\* replaced by code that throws Error("bad"), the output is "HELLO" and the
\* error map has an entry for the second step with message "bad".
C4_AsStated ==
    ScenarioSettled =>
        /\ ScenarioStages
        /\ ScenarioSteps(CodeThrowBad, TRUE) =>
               /\ outputText = HELLO
               /\ activeSteps[2].id \in DOMAIN stepErrors
               /\ stepErrors[activeSteps[2].id] = Bad

\* C4: with input "hello" and one unmuted uppercasing step the output is
\* "HELLO" with no errors; with a second step appending "!" it is "HELLO!";
\* with the second step muted it is "HELLO"; with the muted second step's code
\* replaced by code that throws Error("bad") it is still "HELLO" and the error
\* map is empty, the step being skipped; once that step is unmuted the engine
\* halts at it with output "HELLO", the error map has exactly the entry for the
\* second step's id with message "bad", and the output text shown names the step.
C4_EditSequence ==
    ScenarioSettled =>
        /\ ScenarioStages
        /\ ScenarioSteps(CodeThrowBad, TRUE) =>
               outputText = HELLO /\ stepErrors = NoErrors
        /\ ScenarioSteps(CodeThrowBad, FALSE) =>
               /\ lastRun[1].result.output = HELLO
               /\ stepErrors = (activeSteps[2].id :> Bad)
               /\ outputText = ErrorIn(SecondStepTitle, Bad)

\* the five edits made (add, append "!", mute, throw, unmute) and the run settled
C4_Witness ==
    /\ ScenarioSettled
    /\ ops = 5
    /\ ScenarioSteps(CodeThrowBad, FALSE)
    /\ stepErrors = (activeSteps[2].id :> Bad)

\* C5: while a group is active, after a burst of relevant changes, each made
\* while the timer of the previous one was pending, exactly one execution
\* occurs once the window elapses; it uses the input text and the step list
\* present after the last change, and no execution uses an earlier value.
C5_Coalesced ==
    /\ runsSinceChange <= 1
    /\ RunSettled =>
           /\ runsSinceChange = 1
           /\ lastRun[1].inputText = inputText
           /\ lastRun[1].activeSteps = activeSteps
    /\ mounted /\ hasActiveGroup /\ timers = <<>> => RunSettled

\* three changes in one window (the mount and two edits), then the one run
C5_Witness ==
    /\ burst = 3
    /\ ops = 2
    /\ mounted /\ hasActiveGroup /\ timers = <<>>
    /\ runsSinceChange = 1
    /\ lastRun[1].inputText = Hello
    /\ outputText = HELLO

\* what runPipeline publishes for the current input text and step sequence
Fresh ==
    LET result == executePipeline(runScope, scopeStepId, inputText, activeSteps) IN
    /\ outputText = runPipelineOutput(result)
    /\ stepErrors = result.errors

\* C6: while a group is active, after a relevant change and with no further
\* change, a run eventually executes, and from then on the published output and
\* error map are the engine's result for the current input text and the
\* current steps of the active group.
C6_EventuallyFresh ==
    /\ \A n \in 0..MaxOps :
           (ops = n /\ mounted /\ hasActiveGroup)
               ~> (ops # n \/ (timers = <<>> /\ RunSettled /\ Fresh))
    /\ [](mounted /\ hasActiveGroup /\ timers = <<>> => RunSettled /\ Fresh)

\* after the user's changes the run has executed and the failure shown is current
C6_Witness ==
    /\ ops = MaxOps
    /\ mounted /\ hasActiveGroup /\ timers = <<>>
    /\ RunSettled /\ Fresh
    /\ stepErrors # NoErrors
    /\ Len(activeSteps) >= 2

\* what the scheduling effect observes
Observed == <<inputText, activeSteps, hasActiveGroup, runScope, scopeStepId>>

\* C7: the scheduler is idle (no timer) or pending (one live timer), never
\* more; an observed relevant change leaves exactly one timer, set for the new
\* values, whether or not one was pending; the timer firing and the teardown
\* leave no timer; and the engine runs only when the live timer fires, so a
\* cancelled timer runs nothing.
C7_TwoStates ==
    /\ [](/\ Len(timers) <= 1
          /\ \A i \in 1..Len(timers) :
                 timers[i] = Closure(inputText, activeSteps, hasActiveGroup,
                                     runScope, scopeStepId))
    /\ [][/\ Observed' # Observed /\ mounted' =>
               timers' = <<Closure(inputText', activeSteps', hasActiveGroup',
                                   runScope, scopeStepId')>>
          /\ TimerFire \/ Unmount => timers' = <<>>
          /\ (runsSinceChange' # runsSinceChange /\ runsSinceChange' # 0)
                 \/ <<outputText, stepErrors>>' # <<outputText, stepErrors>> =>
               /\ Len(timers) = 1
               /\ timers' = <<>>
               /\ TimerFire]_vars

\* a change made while a timer was pending left one pending timer
C7_Witness ==
    /\ burst = 3
    /\ Len(timers) = 1
    /\ timers[1].inputText = Hello
    /\ Len(timers[1].activeSteps) = 2
    /\ runsSinceChange = 0

\* The statement as first made: a change observed with no group active, or
\* leaving none active, leaves the scheduler idle, and the engine does not run.
C8_AsStated ==
    /\ [][Observed' # Observed /\ ~hasActiveGroup' => timers' = <<>>]_vars
    /\ [](~hasActiveGroup => runsSinceChange = 0)

\* C8: with no active group the engine is never executed and nothing is
\* published: a relevant change observed then does set the timer, and its
\* callback returns at once, leaving output text and error map as they were.
C8_NoActiveGroup ==
    /\ [](~hasActiveGroup =>
              /\ runsSinceChange = 0
              /\ lastRun # <<>> => ~lastRun[1].executed)
    /\ [][~hasActiveGroup => UNCHANGED <<outputText, stepErrors>>]_vars
    /\ [][Observed' # Observed /\ ~hasActiveGroup' /\ mounted' => Len(timers') = 1]_vars

\* the active group was deleted after a run, and the timer set then has fired
C8_Witness ==
    /\ mounted /\ ~hasActiveGroup
    /\ ops >= 1
    /\ timers = <<>>
    /\ lastRun # <<>> /\ ~lastRun[1].executed
    /\ outputText = HELLO

----------------------------------------------------------------------------
(* Moves of a step and of a library step *)

OutOfRange(items, index) == index < 0 \/ index >= Len(items)

\* the last handler called was a move of a step, or of a library step
MoveCalled == probe # <<>> /\ probe[1].fn \in {"moveStep", "moveLibraryStep"}

\* this step is the call fn(fromIndex, toIndex), which probe records
MoveRecorded(fn, fromIndex, toIndex) ==
    /\ probe' # <<>> /\ probe'[1].fn = fn
    /\ probe'[1].fromIndex = fromIndex /\ probe'[1].toIndex = toIndex

StepMoved(fromIndex, toIndex) ==
    MoveRecorded("moveStep", fromIndex, toIndex) /\ moveStep(fromIndex, toIndex)

LibraryStepMoved(fromIndex, toIndex) ==
    MoveRecorded("moveLibraryStep", fromIndex, toIndex) /\ moveLibraryStep(fromIndex, toIndex)

\* this step is a call of the handler fn, which probe records
CallRecorded(fn) == probe' # <<>> /\ probe'[1].fn = fn

\* the last call recorded is a call of fn
CallRecordedNow(fn) == probe # <<>> /\ probe[1].fn = fn

\* C11: moveStep and moveLibraryStep with a fromIndex or a toIndex that is
\* negative or not below the length raise nothing and leave the steps of the
\* active group, and the library, element for element as they were.
C11_OutOfRangeMove ==
    [][/\ \A fromIndex, toIndex \in Positions(activeSteps) :
            /\ OutOfRange(activeSteps, fromIndex) \/ OutOfRange(activeSteps, toIndex)
            /\ StepMoved(fromIndex, toIndex)
            => activeSteps' = activeSteps /\ stepGroups' = stepGroups /\ ~uncaught'
       /\ \A fromIndex, toIndex \in Positions(librarySteps) :
            /\ OutOfRange(librarySteps, fromIndex) \/ OutOfRange(librarySteps, toIndex)
            /\ LibraryStepMoved(fromIndex, toIndex)
            => librarySteps' = librarySteps /\ ~uncaught']_vars

\* a step was moved from the last position to the position after the last,
\* or a library step from before the first position
C11_Witness ==
    /\ MoveCalled
    /\ Len(probe[1].before) = MaxSteps
    /\ \/ /\ probe[1].fn = "moveStep"
          /\ probe[1].fromIndex = MaxSteps - 1 /\ probe[1].toIndex = MaxSteps
          /\ activeSteps = probe[1].before
       \/ /\ probe[1].fn = "moveLibraryStep"
          /\ probe[1].fromIndex < 0 /\ probe[1].toIndex = 0
          /\ librarySteps = probe[1].before

\* next is prev with the element at fromIndex relocated to toIndex
Relocated(prev, next, fromIndex, toIndex) ==
    /\ Len(next) = Len(prev)
    /\ \A x \in Range(prev) \cup Range(next) :
          Cardinality({i \in 1..Len(prev) : prev[i] = x})
              = Cardinality({i \in 1..Len(next) : next[i] = x})
    /\ next[toIndex + 1] = prev[fromIndex + 1]
    /\ RemoveAt(next, toIndex + 1) = RemoveAt(prev, fromIndex + 1)

\* C12: moveStep and moveLibraryStep with both indices in range relocate one
\* element: the result is a permutation of the sequence, the element that was
\* at fromIndex is at toIndex, and the others keep their relative order.
C12_Relocation ==
    [][/\ \A fromIndex, toIndex \in 0..(Len(activeSteps) - 1) :
            StepMoved(fromIndex, toIndex)
            => Relocated(activeSteps, activeSteps', fromIndex, toIndex)
       /\ \A fromIndex, toIndex \in 0..(Len(librarySteps) - 1) :
            LibraryStepMoved(fromIndex, toIndex)
            => Relocated(librarySteps, librarySteps', fromIndex, toIndex)]_vars

\* the first of three steps was moved to the end, past two others
C12_Witness ==
    /\ MoveCalled
    /\ probe[1].fn = "moveStep"
    /\ Len(probe[1].before) >= 3
    /\ probe[1].fromIndex = 0 /\ probe[1].toIndex = Len(probe[1].before) - 1
    /\ activeSteps[Len(activeSteps)] = probe[1].before[1]
    /\ activeSteps[1] = probe[1].before[2]

----------------------------------------------------------------------------
(* Deleting a group *)

\* the position of the element with this id (ids are unique)
PositionOf(items, id) == CHOOSE i \in 1..Len(items) : items[i].id = id

\* what a group is, apart from the input text kept with it and its time stamps
GroupContent(group) == [id |-> group.id, title |-> group.title, steps |-> group.steps]

ContentsOf(groups) == [i \in 1..Len(groups) |-> GroupContent(groups[i])]

SelectionValid == selectedGroupId = Null \/ selectedGroupId \in IdsOf(stepGroups)

\* C13: deleteGroup(id) removes exactly the group with that id and keeps the
\* others in their order; if it was the selected group the selection becomes
\* the first remaining group, or none when no group remains, and otherwise
\* the selection is unchanged.  So the selected group id is always null or
\* the id of an existing group.
C13_DeleteGroup ==
    /\ []SelectionValid
    /\ [][\A id \in IdsOf(stepGroups) :
            CallRecorded("deleteGroup") /\ deleteGroup(id) =>
                /\ ContentsOf(stepGroups')
                      = RemoveAt(ContentsOf(stepGroups), PositionOf(stepGroups, id))
                /\ selectedGroupId' =
                      IF selectedGroupId # id THEN selectedGroupId
                      ELSE IF Len(stepGroups) = 1 THEN Null
                      ELSE IF PositionOf(stepGroups, id) = 1 THEN stepGroups[2].id
                      ELSE stepGroups[1].id]_vars

\* the selected first group of several was deleted and the second is selected
C13_Witness ==
    /\ probe # <<>> /\ probe[1].fn = "deleteGroup"
    /\ Len(probe[1].before) = MaxGroups
    /\ probe[1].id = probe[1].selectedGroupId
    /\ probe[1].id = probe[1].before[1].id
    /\ Len(stepGroups) = MaxGroups - 1
    /\ selectedGroupId = probe[1].before[2].id

----------------------------------------------------------------------------
(* Deleting a step.  deleteStep runs 220 ms after the request, with the     *)
(* active group and the selection of the render the request was made in.    *)

\* items without the element with this id, if there is one
Without(items, id) ==
    IF id \in IdsOf(items) THEN RemoveAt(items, PositionOf(items, id)) ELSE items

\* C14: deleteStep(id) removes exactly the step with that id from its group;
\* if the step selection pointed at the removed step it falls back to the new
\* first step of the group, or to none when the group becomes empty; if the
\* selection pointed at another step, it is unchanged.
C14_AsStated ==
    [][\A p \in pendingDeletes :
          CallRecorded("deleteStep") /\ deleteStep(p) =>
              LET steps == activeStepsOf(stepGroups, p.groupId)
                  next == Without(steps, p.id)
              IN  /\ activeStepsOf(stepGroups', p.groupId) = next
                  /\ selectedStepId' =
                        IF selectedStepId # p.id THEN selectedStepId
                        ELSE IF next = <<>> THEN Null
                        ELSE next[1].id]_vars

\* the first step was deleted while the last one was selected, and the
\* selection has moved to a step it did not point at
C14_Witness ==
    /\ probe # <<>> /\ probe[1].fn = "deleteStep"
    /\ probe[1].groupId = selectedGroupId
    /\ Len(probe[1].before) = MaxSteps
    /\ probe[1].id = probe[1].before[1].id
    /\ probe[1].selectedStepId = probe[1].before[MaxSteps].id
    /\ probe[1].selectedStepId \in IdsOf(activeSteps)
    /\ selectedStepId # probe[1].selectedStepId

\* C14, when the selection and the active group are still those of the render
\* the delete was requested in: the step is removed and the selection falls
\* back or stays, as stated.
C14_CurrentClosure ==
    [][\A p \in pendingDeletes :
          /\ p.selectedStepId = selectedStepId /\ p.groupId = selectedGroupId
          /\ CallRecorded("deleteStep") /\ deleteStep(p)
          => LET next == Without(activeSteps, p.id)
             IN  /\ activeSteps' = next
                 /\ selectedStepId' =
                       IF selectedStepId # p.id THEN selectedStepId
                       ELSE IF next = <<>> THEN Null
                       ELSE next[1].id]_vars

----------------------------------------------------------------------------
(* Adding a step *)

\* every id in use: of a group, of a step of any group, of a library step
IdsInUse == UsedIds(stepGroups) \cup IdsOf(librarySteps)

\* the groups other than the active one
OtherGroups(groups) == SelectSeq(groups, LAMBDA group : group.id # selectedGroupId)

\* C15: addStepFromLibrary(libraryStep, atIndex?) with an active group creates
\* one new step with a fresh id, muted = false and the template's title and
\* code, inserts it at atIndex when given and appends it otherwise, and
\* selects it; the library and all existing steps are unchanged.
C15_AddFromLibrary ==
    [][\A i \in 1..Len(librarySteps) :
         \A index \in {<<>>} \cup {<<n>> : n \in 0..Len(activeSteps)} :
            /\ hasActiveGroup
            /\ CallRecorded("addStepFromLibrary") /\ probe'[1].index = index
            /\ addStepFromLibrary(librarySteps[i], index)
            =>
                LET at == IF index = <<>> THEN Len(activeSteps) + 1 ELSE index[1] + 1
                    new == activeSteps'[at]
                IN  /\ Len(activeSteps') = Len(activeSteps) + 1
                    /\ RemoveAt(activeSteps', at) = activeSteps
                    /\ new.id \notin IdsInUse
                    /\ new.muted = FALSE
                    /\ new.title = librarySteps[i].title
                    /\ new.code = librarySteps[i].code
                    /\ selectedStepId' = new.id
                    /\ selectedGroupId' = selectedGroupId
                    /\ librarySteps' = librarySteps
                    /\ OtherGroups(stepGroups') = OtherGroups(stepGroups)]_vars

\* a library step was inserted as the second of the steps, and is selected
C15_Witness ==
    /\ probe # <<>> /\ probe[1].fn = "addStepFromLibrary"
    /\ probe[1].index = <<1>>
    /\ Len(probe[1].before) = MaxSteps
    /\ Len(activeSteps) = MaxSteps + 1
    /\ activeSteps[2].id = selectedStepId
    /\ activeSteps[2].code = probe[1].libraryStep.code
    /\ activeSteps[2].code # DEFAULT_CODE
    /\ activeSteps[1] = probe[1].before[1]

\* C16: addStep with an active group appends one new step at the end of the
\* group's steps, titled "title n" for n the previous length + 1, with the
\* identity transform as code and muted = false, and selects it; the existing
\* steps keep their ids, fields and order.
C16_AddStep ==
    [][hasActiveGroup /\ CallRecorded("addStep") /\ addStep =>
          LET n == Len(activeSteps) + 1
              new == activeSteps'[n]
          IN  /\ Len(activeSteps') = n
              /\ SubSeq(activeSteps', 1, n - 1) = activeSteps
              /\ new.title = <<"t","i","t","l","e"," ">> \o NumberText(n)
              /\ new.code = DEFAULT_CODE
              /\ \A text \in MainTexts : Eval(new.code, text) = Returned(JsString(text))
              /\ new.muted = FALSE
              /\ new.id \notin IdsInUse
              /\ selectedStepId' = new.id
              /\ OtherGroups(stepGroups') = OtherGroups(stepGroups)]_vars

\* a step was added after MaxSteps others: it is the last, titled by its
\* position, and selected
C16_Witness ==
    /\ probe # <<>> /\ probe[1].fn = "addStep"
    /\ Len(probe[1].before) = MaxSteps
    /\ Len(activeSteps) = MaxSteps + 1
    /\ activeSteps[MaxSteps + 1].title = <<"t","i","t","l","e"," ">> \o NumberText(MaxSteps + 1)
    /\ activeSteps[MaxSteps + 1].id = selectedStepId

----------------------------------------------------------------------------
(* Persistence *)

\* the page was just loaded again, after a session whose last write succeeded
Reloaded == probe # <<>> /\ probe[1].fn = "reload" /\ probe[1].written

\* C17, as stated: what is loaded equals what was saved: the groups with
\* their steps, the library steps, the selected group and the selected step.
C17_AsStated == Reloaded => probe[1].loaded = probe[1].saved

\* C17: saving the envelope and loading it again gives the library steps, the
\* selected group, the selected step and the groups that were saved, each
\* group with its id, title, steps and time stamps, except that a group saved
\* without an input text is loaded with the empty input text.
C17_RoundTrip ==
    Reloaded =>
        LET saved == probe[1].saved
            loaded == probe[1].loaded
        IN  /\ loaded.librarySteps = saved.librarySteps
            /\ loaded.selectedGroupId = saved.selectedGroupId
            /\ loaded.selectedStepId = saved.selectedStepId
            /\ Len(loaded.stepGroups) = Len(saved.stepGroups)
            /\ \A i \in 1..Len(saved.stepGroups) :
                  loaded.stepGroups[i] =
                      IF saved.stepGroups[i].inputText = <<>>
                      THEN [saved.stepGroups[i] EXCEPT !.inputText = <<EmptyText>>]
                      ELSE saved.stepGroups[i]

\* a session that added a group and never gave it an input text was reloaded
C17_Witness ==
    /\ Reloaded
    /\ probe[1].saved.stepGroups # <<>>
    /\ probe[1].saved.stepGroups[Len(probe[1].saved.stepGroups)].inputText = <<>>
    /\ probe[1].loaded.stepGroups[Len(probe[1].saved.stepGroups)].inputText = <<EmptyText>>
    /\ probe[1].loaded.selectedGroupId = probe[1].saved.selectedGroupId
    /\ mounted

\* the app has just started on a payload
Loaded == probe # <<>> /\ probe[1].fn = "load"

\* the payload is an object whose version is the number 1
VersionOne(payload) == payload.kind = "object" /\ payload.version = "1"

\* C18: a missing payload, an unparsable one, and an envelope whose version
\* is absent or not 1 or whose top-level value is not an object load as the
\* empty state: no groups, no library steps, both selections null.  An
\* envelope of version 1 whose stepGroups or librarySteps is not an array
\* loads with that collection empty and the rest kept.
C18_BadEnvelope ==
    Loaded =>
        LET payload == probe[1].payload
            loaded == probe[1].loaded
        IN  /\ ~VersionOne(payload) =>
                  /\ loaded.stepGroups = <<>> /\ loaded.librarySteps = <<>>
                  /\ loaded.selectedGroupId = Null /\ loaded.selectedStepId = Null
                  /\ stepGroups = <<>> /\ librarySteps = <<>>
                  /\ selectedGroupId = Null /\ selectedStepId = Null
            /\ VersionOne(payload) =>
                  /\ loaded.selectedGroupId = payload.selectedGroupId
                  /\ loaded.selectedStepId = payload.selectedStepId
                  /\ ~payload.stepGroups.isArray => loaded.stepGroups = <<>>
                  /\ payload.stepGroups.isArray =>
                        ContentsOf(loaded.stepGroups) = ContentsOf(payload.stepGroups.items)
                  /\ ~payload.librarySteps.isArray => loaded.librarySteps = <<>>
                  /\ payload.librarySteps.isArray =>
                        loaded.librarySteps = payload.librarySteps.items
                  /\ librarySteps = loaded.librarySteps

\* an envelope with groups, a library and selections, whose version is the
\* string "1", was found, and the app started empty
C18_Witness ==
    /\ Loaded
    /\ probe[1].payload.kind = "object"
    /\ probe[1].payload.version = "\"1\""
    /\ probe[1].payload.stepGroups.isArray /\ probe[1].payload.stepGroups.items # <<>>
    /\ probe[1].payload.librarySteps.isArray /\ probe[1].payload.librarySteps.items # <<>>
    /\ probe[1].payload.selectedGroupId # Null
    /\ stepGroups = <<>> /\ librarySteps = <<>> /\ selectedGroupId = Null

\* the envelope of the state held now
CurrentEnvelope == Envelope(stepGroups, selectedGroupId, selectedStepId, librarySteps)

\* C19: a failed save is swallowed: when the storage refuses the write that
\* follows a mutation, no error is raised to the application, which goes on
\* with the groups, steps, library and selections the mutation produced.
C19_AsStated ==
    [][storageFull /\ CurrentEnvelope' # storage => ~uncaught' /\ mounted']_vars

\* the storage refused a write: the error left the persist effect, the app is
\* gone and the storage holds an older envelope
C19_Witness ==
    /\ storageFull /\ uncaught /\ ~mounted
    /\ storage # CurrentEnvelope
    /\ probe # <<>> /\ probe[1].fn = "addStep"

\* the envelope stored, property by property
StoredIs(groups, groupId, stepId, library) ==
    /\ storage.kind = "object"
    /\ storage.version = "1"
    /\ storage.stepGroups = [isArray |-> TRUE, items |-> groups]
    /\ storage.selectedGroupId = groupId
    /\ storage.selectedStepId = stepId
    /\ storage.librarySteps = [isArray |-> TRUE, items |-> library]

\* C20: once a mutation of the groups, their steps, the library or a
\* selection has been processed, the stored envelope has version 1 and holds
\* the current value of all four: it never lags behind.  (Stated for the app
\* while it runs, that is while no write has failed.)
C20_StoredIsCurrent ==
    ~uncaught => StoredIs(stepGroups, selectedGroupId, selectedStepId, librarySteps)

\* a step of the library was added to the group, and the envelope stored
\* holds the new step and the new selection
C20_Witness ==
    /\ probe # <<>> /\ probe[1].fn = "addStepFromLibrary"
    /\ mounted /\ ~storageFull
    /\ Len(activeSteps) = MaxSteps + 1
    /\ storage.stepGroups.items = stepGroups
    /\ storage.selectedStepId = selectedStepId
    /\ selectedStepId \notin IdsOf(probe[1].before)
    /\ storage.librarySteps.items = librarySteps /\ librarySteps # <<>>

----------------------------------------------------------------------------
(* Time stamps *)

\* the element of items with that id, as <<>> or <<element>>
Find(items, id) ==
    IF findIndex(items, id) = 0 THEN <<>> ELSE <<items[findIndex(items, id)]>>

\* what a group holds besides its time stamps; its input text as the app reads it
GroupFields(group) ==
    [title |-> group.title, steps |-> group.steps,
     inputText |-> IF group.inputText = <<>> THEN EmptyText ELSE group.inputText[1]]

StepFields(step) == [title |-> step.title, code |-> step.code, muted |-> step.muted]

LibraryFields(step) == [title |-> step.title, code |-> step.code]

AllSteps(groups) == UNION {ElementsOf(groups[i].steps) : i \in 1..Len(groups)}

\* the step with that id before the transition, in the group with that id
StepBefore(groupId, id) ==
    IF Find(stepGroups, groupId) = <<>> THEN <<>>
    ELSE Find(Find(stepGroups, groupId)[1].steps, id)

New(item, t) == item.createdAt = t /\ item.updatedAt = t

\* every entity that is new after the transition was created at the current
\* time, and every entity that the transition changed is stamped with it
Stamps ==
    /\ \A group \in ElementsOf(stepGroups') :
          /\ IF Find(stepGroups, group.id) = <<>> THEN New(group, now')
             ELSE GroupFields(group) # GroupFields(Find(stepGroups, group.id)[1])
                      => group.updatedAt = now'
          /\ \A step \in ElementsOf(group.steps) :
                IF StepBefore(group.id, step.id) = <<>> THEN New(step, now')
                ELSE StepFields(step) # StepFields(StepBefore(group.id, step.id)[1])
                         => step.updatedAt = now'
    /\ \A step \in ElementsOf(librarySteps') :
          IF Find(librarySteps, step.id) = <<>> THEN New(step, now')
          ELSE LibraryFields(step) # LibraryFields(Find(librarySteps, step.id)[1])
                   => step.updatedAt = now'

TimesOrdered ==
    \A item \in ElementsOf(stepGroups) \cup AllSteps(stepGroups) \cup ElementsOf(librarySteps) :
        item.updatedAt >= item.createdAt

\* C21: every operation stamps updatedAt with the current time on each step,
\* group and library step whose fields it changes, a change of a group's step
\* list (add, update, delete, move, insert from the library) being a change of
\* the group, and creates entities with both stamps at the current time; in
\* every reachable state updatedAt >= createdAt for every step, group and
\* library step.
C21_Stamped == []TimesOrdered /\ [][Stamps]_vars

\* a step was edited after the clock advanced: it and its group carry the
\* current time, later than the step's creation
C21_Witness ==
    \E group \in ElementsOf(stepGroups) : \E step \in ElementsOf(group.steps) :
        /\ now > 0
        /\ step.createdAt < now
        /\ step.updatedAt = now
        /\ group.updatedAt = now

----------------------------------------------------------------------------
(* Identity *)

Distinct(items) == \A i, j \in 1..Len(items) : i # j => items[i].id # items[j].id

\* the positions of all steps: <<group position, step position>>
StepPositions(groups) ==
    UNION {{<<g, i>> : i \in 1..Len(groups[g].steps)} : g \in 1..Len(groups)}

StepIds(groups) == {step.id : step \in AllSteps(groups)}

DistinctIds ==
    /\ Distinct(stepGroups)
    /\ \A p, q \in StepPositions(stepGroups) :
          p # q => stepGroups[p[1]].steps[p[2]].id # stepGroups[q[1]].steps[q[2]].id
    /\ StepIds(stepGroups) \cap IdsOf(librarySteps) = {}

\* no transition replaces an id by another: it does not both drop ids and
\* bring in ids, in the groups, in the steps or in the library
IdsKept(before, after) == ~(before \ after # {} /\ after \ before # {})

\* C22: in every state of the entity store the group ids are pairwise
\* distinct, the step ids are pairwise distinct across all groups and no step
\* id is a library step id; and no operation changes the id of a group, of a
\* step or of a library step that it keeps.
C22_Identity ==
    /\ []DistinctIds
    /\ [][/\ IdsKept(IdsOf(stepGroups), IdsOf(stepGroups'))
          /\ IdsKept(StepIds(stepGroups), StepIds(stepGroups'))
          /\ IdsKept(IdsOf(librarySteps), IdsOf(librarySteps'))]_vars

\* a step was saved to the library and the library step was added to the
\* group: three entities with the same title and code, and three ids
C22_Witness ==
    /\ CallRecordedNow("addStepFromLibrary")
    /\ \E s, t \in AllSteps(stepGroups) : \E l \in ElementsOf(librarySteps) :
          /\ s.id # t.id /\ s.id # l.id /\ t.id # l.id
          /\ s.title = l.title /\ t.title = l.title
          /\ s.code = l.code /\ t.code = l.code
          /\ l.code = DEFAULT_CODE

----------------------------------------------------------------------------
(* The input text cached in a group *)

\* group.inputText ?? ''
CachedText(group) == IF group.inputText = <<>> THEN EmptyText ELSE group.inputText[1]

\* while a group is active the input editor holds its cached text
InputIsCached == hasActiveGroup => inputText = CachedText(activeGroup[1])

\* the cached text of every group after a transition: the text typed, for the
\* active group when the input was edited; the empty text for a new group;
\* what it was, in every other case.  A page loaded after a write to the
\* storage failed holds what an earlier write stored.
CachedTexts ==
    \/ CallRecorded("reload") /\ ~probe'[1].written
    \/ \A group \in ElementsOf(stepGroups') :
          CachedText(group) =
              IF Find(stepGroups, group.id) = <<>> THEN EmptyText
              ELSE IF CallRecorded("setInputText") /\ group.id = selectedGroupId
                   THEN probe'[1].text
                   ELSE CachedText(Find(stepGroups, group.id)[1])

\* C23: the input text cached in a group is the last input entered while the
\* group was active: an edit of the input sets the cached text of the active
\* group and of no other group, selecting another group sets the input to the
\* text cached in that group and changes the cached text of no group, and no
\* other operation changes the cached text of a group (a reload gives the
\* texts back as long as no write to the storage has failed).
C23_CachedInput ==
    /\ []InputIsCached
    /\ [][/\ CachedTexts
          /\ CallRecorded("setInputText") => inputText' = probe'[1].text
          /\ CallRecorded("setSelectedGroupId") =>
                 inputText' = CachedText(Find(stepGroups, probe'[1].id)[1])]_vars

\* another group was selected: the input changed to that group's text, the
\* group left keeps another text
C23_Witness ==
    /\ CallRecordedNow("setSelectedGroupId")
    /\ inputText = Hello
    /\ \E group \in ElementsOf(stepGroups) :
          group.id # selectedGroupId /\ CachedText(group) # inputText

----------------------------------------------------------------------------
(* Search *)

\* query occurs in text, letters compared without their case
ContainsCI(text, query) ==
    \E i \in 0..(Len(text) - Len(query)) :
        \A k \in 1..Len(query) : UpperChar(text[i + k]) = UpperChar(query[k])

GroupsMatching(groups, query) ==
    IF query = EmptyText THEN groups
    ELSE SelectSeq(groups, LAMBDA group : ContainsCI(group.title, query))

StepsMatching(steps, query) ==
    IF query = EmptyText THEN steps
    ELSE SelectSeq(steps, LAMBDA step : ContainsCI(step.title, query)
                                           \/ ContainsCI(CodeText(step.code), query))

\* C24, as stated: the visible lists are the lists filtered by the query as
\* it was typed.
C24_AsStated ==
    /\ visibleGroups = GroupsMatching(stepGroups, groupSearch)
    /\ visibleSteps = StepsMatching(activeSteps, stepSearch)
    /\ visibleLibrarySteps = StepsMatching(librarySteps, librarySearch)

\* C24: with the query taken without its leading and trailing white space,
\* the visible groups are the groups whose title contains the query, the
\* visible steps and library steps are those whose title or code contains it,
\* letters compared without their case, in the order of the collection; for
\* an empty query the collection is returned as it is.
C24_Filters ==
    /\ visibleGroups = GroupsMatching(stepGroups, trim(groupSearch))
    /\ visibleSteps = StepsMatching(activeSteps, trim(stepSearch))
    /\ visibleLibrarySteps = StepsMatching(librarySteps, trim(librarySearch))

\* a query with white space after it hides a group, and a query in capitals
\* finds library steps by their code and hides the one with another code
C24_Witness ==
    /\ groupSearch = <<"1"," ">>
    /\ Len(visibleGroups) = 1 /\ Len(stepGroups) > 1
    /\ librarySearch = <<"U","P","P","E","R">>
    /\ Len(visibleLibrarySteps) > 1
    /\ Len(visibleLibrarySteps) < Len(librarySteps)

----------------------------------------------------------------------------
(* The first load of an empty storage *)

DefaultTitle == <<"t","i","t","l","e"," ","1">>

\* the app has just started on a storage that holds no step
LoadedNoSteps == Loaded /\ AllSteps(probe[1].loaded.stepGroups) = {}

\* C25, as stated: when the app has started on a storage that holds no step,
\* the step list is not empty: it holds a step with the default title.
C25_AsStated ==
    LoadedNoSteps =>
        /\ activeSteps # <<>>
        /\ \E step \in ElementsOf(activeSteps) : step.title = DefaultTitle

\* the app has started on a storage that holds nothing: no group, no step
C25_Witness ==
    /\ Loaded /\ probe[1].payload.kind = "missing"
    /\ mounted
    /\ stepGroups = <<>> /\ activeSteps = <<>> /\ selectedStepId = Null

----------------------------------------------------------------------------
(* What the step operations leave alone *)

StepOperations == {"addStep", "updateStep", "deleteStep", "moveStep", "addStepFromLibrary"}

\* a step operation has just run
StepOperation == probe' # <<>> /\ probe'[1].fn \in StepOperations

\* the group a step operation works on: the active group of the render that
\* made the call, which for the delayed deleteStep is the render of the request
OwnGroupId == IF probe'[1].fn = "deleteStep" THEN probe'[1].groupId ELSE selectedGroupId

\* the transition leaves the groups that are there, their order and the steps
\* of every group but the one with that id
OtherStepsKept(groupId) ==
    /\ [i \in 1..Len(stepGroups') |-> stepGroups'[i].id] =
       [i \in 1..Len(stepGroups) |-> stepGroups[i].id]
    /\ \A i \in 1..Len(stepGroups) :
          stepGroups[i].id # groupId => stepGroups'[i].steps = stepGroups[i].steps

NothingChanged ==
    /\ stepGroups' = stepGroups
    /\ librarySteps' = librarySteps
    /\ selectedStepId' = selectedStepId
    /\ selectedGroupId' = selectedGroupId

\* C26, as stated: a step operation changes the steps of no group but the
\* currently active one and leaves the library, and changes nothing when no
\* group is active.
C26_AsStated ==
    [][StepOperation =>
          /\ OtherStepsKept(selectedGroupId)
          /\ librarySteps' = librarySteps
          /\ ~hasActiveGroup => NothingChanged]_vars

\* C26: a step operation changes the steps of no group but the one that was
\* active when it was called (for the delayed deletion: when the deletion was
\* requested) and leaves the library, and changes nothing when that group is
\* not there.
C26_OwnGroupOnly ==
    [][StepOperation =>
          /\ OtherStepsKept(OwnGroupId)
          /\ librarySteps' = librarySteps
          /\ Find(stepGroups, OwnGroupId) = <<>> => NothingChanged]_vars

\* a delayed deletion ran after another group became active: the step is gone
\* from the group it was requested in
C26_Witness ==
    /\ CallRecordedNow("deleteStep")
    /\ probe[1].groupId # selectedGroupId
    /\ hasActiveGroup
    /\ Find(stepGroups, probe[1].groupId) # <<>>
    /\ probe[1].id \in IdsOf(probe[1].before)
    /\ probe[1].id \notin IdsOf(Find(stepGroups, probe[1].groupId)[1].steps)

-----------------------------------------------------------------------------
(* The selected step *)

\* C27: once the effects of a render have run, the selected step id is null
\* when no group is active or the active group has no steps, and otherwise
\* the id of a step of the active group.
C27_SelectionRepaired ==
    IF ~hasActiveGroup \/ activeSteps = <<>>
    THEN selectedStepId = Null
    ELSE selectedStepId \in IdsOf(activeSteps)

\* a delayed deletion removed the selected step; its closure held another
\* selection, so it set none: the dangling selection was repaired to the
\* first step that is left
C27_Witness ==
    /\ CallRecordedNow("deleteStep")
    /\ probe[1].groupId = selectedGroupId
    /\ probe[1].selectedStepId = probe[1].id
    /\ probe[1].closure.selectedStepId # probe[1].id
    /\ probe[1].id \in IdsOf(probe[1].before)
    /\ activeSteps # <<>>
    /\ selectedStepId = activeSteps[1].id

-----------------------------------------------------------------------------
(* The delayed deletion and what the user did since the request *)

\* the delayed deleteStep that has just run was requested in a render whose
\* selection or active group is no longer the current one
NewerSelection ==
    /\ CallRecorded("deleteStep")
    /\ \/ probe'[1].closure.selectedStepId # selectedStepId
       \/ probe'[1].closure.groupId # selectedGroupId

\* C28, as stated: the delayed deletion removes exactly the requested step
\* from its group, and when the user has selected another step or another
\* group since the request, the removal leaves that newer selection as it is.
C28_AsStated ==
    [][CallRecorded("deleteStep") =>
          /\ activeStepsOf(stepGroups', probe'[1].groupId) =
                Without(probe'[1].before, probe'[1].id)
          /\ NewerSelection /\ selectedStepId # probe'[1].id =>
                /\ selectedStepId' = selectedStepId
                /\ selectedGroupId' = selectedGroupId]_vars

\* the deletion of the selected step was requested, the user then selected
\* another step of the group, and the removal moved the selection off it
C28_Witness ==
    /\ CallRecordedNow("deleteStep")
    /\ probe[1].closure.groupId = selectedGroupId
    /\ probe[1].closure.selectedStepId = probe[1].id
    /\ probe[1].selectedStepId # probe[1].id
    /\ probe[1].selectedStepId \in IdsOf(activeSteps)
    /\ selectedStepId # probe[1].selectedStepId

\* The parts of C28 that hold: the removal takes exactly the requested step
\* out of its group and leaves the active group, and the steps that carry
\* the deleting mark are those whose removal or whose cleanup is pending.
C28_RemovesAndClears ==
    /\ [][CallRecorded("deleteStep") =>
             /\ activeStepsOf(stepGroups', probe'[1].groupId) =
                   Without(probe'[1].before, probe'[1].id)
             /\ selectedGroupId' = selectedGroupId]_vars
    /\ [](mounted => deletingStepIds = {p.id : p \in pendingDeletes} \cup pendingCleanups)

-----------------------------------------------------------------------------
(* What is published when no run is pending *)

\* the published errors are about at most one step, a step of the active group
ErrorsOfActiveSteps ==
    /\ Cardinality(DOMAIN stepErrors) <= 1
    /\ DOMAIN stepErrors \subseteq IdsOf(activeSteps)

C29_WithActiveGroup == (mounted /\ timers = <<>> /\ hasActiveGroup) => ErrorsOfActiveSteps

-----------------------------------------------------------------------------
(* Reordering the library by drag and drop *)

\* the dragged library step has taken the place the step it was dropped on
\* had in the library, and the other steps keep their order
MovedOnto(before, after, dragged, target) ==
    /\ Len(after) = Len(before)
    /\ PositionOf(after, dragged) = PositionOf(before, target)
    /\ Without(after, dragged) = Without(before, dragged)

\* C30, as stated: a drop of the library item shown at one visible position
\* onto the item shown at another moves exactly the dragged library step to
\* the place of the drop target in the library, whatever the library search.
C30_AsStated ==
    [][CallRecorded("libraryItemDrop") =>
          MovedOnto(probe'[1].before, librarySteps', probe'[1].dragged, probe'[1].target)]_vars

\* the search hides a library step, an item shown was dropped on another
\* one, and the dragged step is not where the drop target was
C30_Witness ==
    /\ CallRecordedNow("libraryItemDrop")
    /\ Len(visibleLibrarySteps) < Len(librarySteps)
    /\ probe[1].dragged # probe[1].target
    /\ PositionOf(librarySteps, probe[1].dragged) #
          PositionOf(probe[1].before, probe[1].target)

\* The part of C30 that holds: when the search hides no library step, the
\* drop moves the dragged step to the place of the drop target.
C30_NothingHidden ==
    [][/\ CallRecorded("libraryItemDrop")
       /\ visibleLibrarySteps = librarySteps
       => MovedOnto(probe'[1].before, librarySteps', probe'[1].dragged, probe'[1].target)]_vars

====
